---------------------------- MODULE Spec2Model ----------------------------
(***************************************************************************)
(* A model of the SquashFS reader (jeremielate/rust-squashfs): superblock  *)
(* decoding, the metadata-block reader, the inode-header decoders, the     *)
(* inode-table scanner, the two-level table readers and the image facade.  *)
(*                                                                         *)
(* Representation.                                                         *)
(*  - A byte string is a sequence of runs <<s, lo, n>> (n > 0).  A run     *)
(*    with s in 0..255 is n copies of the byte s (lo = 0).  A run with     *)
(*    s >= 256 is bytes lo .. lo+n-1 of the opaque content numbered s      *)
(*    (a compressed stream, or table payload whose values do not matter).  *)
(*    Byte strings are kept in normal form, so equality is equality of     *)
(*    the bytes.                                                           *)
(*  - A fixed-width integer wider than 16 bits is a little-endian sequence *)
(*    of 16-bit limbs (u32: 2 limbs, u64/i64: 4 limbs): the model checker  *)
(*    has 32-bit integers only, and the code's values reach 2^64 - 1.      *)
(*  - An operation returns a record whose field st is "Ok", "Err" (an      *)
(*    io::Error value handed to the caller) or "Panic" (the thread         *)
(*    unwinds: panic!, todo!, unimplemented!, a failed slice copy).        *)
(***************************************************************************)
EXTENDS Integers, Sequences, FiniteSets, TLC

VARIABLES
    disk,       \* the bytes of the seekable source (or of the input stream)
    codec,      \* the decompressor: compressed stream |-> its length and output
    pos,        \* the source's cursor
    env,        \* what the operation under study is called with
    pc,         \* "ready" before the operation, "done" after it
    ret,        \* what the operation returned
    fetched     \* the metadata-block reads issued so far: <<start, expected>>

vars == <<disk, codec, pos, env, pc, ret, fetched>>

-----------------------------------------------------------------------------
(* Program constants (src/src/lib.rs).                                     *)

SUPERBLOCK_SIZE == 96
METADATA_SIZE == 8192
FRAGMENT_ENTRY_SIZE == 16
INODE_ENTRY_SIZE == 8

-----------------------------------------------------------------------------
(* Byte strings.                                                           *)

IsLit(s) == s <= 255

\* a `let`: Eval({e : r \in {v}}) is e with r standing for the value of v,
\* which is computed once however often e mentions r
Eval(S) == CHOOSE x \in S : TRUE

Min(a, b) == IF a <= b THEN a ELSE b
Max(a, b) == IF a >= b THEN a ELSE b

\* the number of bytes of runs lo..hi of bs (halving keeps the evaluation shallow)
RECURSIVE BLenRange(_, _, _)
BLenRange(bs, lo, hi) ==
    IF lo > hi THEN 0
    ELSE IF lo = hi THEN bs[lo][3]
    ELSE LET mid == (lo + hi) \div 2
         IN  BLenRange(bs, lo, mid) + BLenRange(bs, mid + 1, hi)

\* the number of bytes of bs
BLen(bs) == BLenRange(bs, 1, Len(bs))

Mergeable(r1, r2) ==
    /\ r1[1] = r2[1]
    /\ (IsLit(r1[1]) \/ r1[2] + r1[3] = r2[2])

\* a ++ b, in normal form when a and b are
BCat(a, b) ==
    IF a = <<>> THEN b
    ELSE IF b = <<>> THEN a
    ELSE LET x == a[Len(a)]
             y == b[1]
         IN  IF Mergeable(x, y)
             THEN SubSeq(a, 1, Len(a) - 1) \o <<<<x[1], x[2], x[3] + y[3]>>>> \o Tail(b)
             ELSE a \o b

\* the run of bs, among runs lo..hi, that holds the byte k bytes after the
\* start of run lo, and that byte's offset in the run (halving, as BLenRange);
\* the last run with an offset past its end when there is no such byte
RECURSIVE BLocate(_, _, _, _)
BLocate(bs, lo, hi, k) ==
    IF lo >= hi THEN <<lo, k>>
    ELSE LET mid == (lo + hi) \div 2
             m == BLenRange(bs, lo, mid)
         IN  IF k < m THEN BLocate(bs, lo, mid, k)
             ELSE BLocate(bs, mid + 1, hi, k - m)

\* the first k bytes of bs (all of bs when it is shorter)
BTake(bs, k) ==
    IF k <= 0 \/ bs = <<>> THEN <<>>
    ELSE Eval({(IF at[2] >= bs[at[1]][3] THEN bs
           ELSE SubSeq(bs, 1, at[1] - 1)
                    \o <<<<bs[at[1]][1], bs[at[1]][2], at[2] + 1>>>>)
        : at \in {BLocate(bs, 1, Len(bs), k - 1)}})

\* bs without its first k bytes
BDrop(bs, k) ==
    IF k <= 0 \/ bs = <<>> THEN bs
    ELSE Eval({(IF at[2] >= bs[at[1]][3] THEN <<>>
           ELSE <<<<bs[at[1]][1],
                    IF IsLit(bs[at[1]][1]) THEN 0 ELSE bs[at[1]][2] + at[2],
                    bs[at[1]][3] - at[2]>>>>
                    \o SubSeq(bs, at[1] + 1, Len(bs)))
        : at \in {BLocate(bs, 1, Len(bs), k)}})

\* bytes [from, from + n) of bs
BSub(bs, from, n) == Eval({(BTake(rest, n)) : rest \in {BDrop(bs, from)}})

\* n copies of the byte v
BFill(v, n) == IF n <= 0 THEN <<>> ELSE <<<<v, 0, n>>>>

\* the byte string of bytes lo..hi of an explicit sequence of byte values
RECURSIVE BLitRange(_, _, _)
BLitRange(b, lo, hi) ==
    IF lo > hi THEN <<>>
    ELSE IF lo = hi THEN <<<<b[lo], 0, 1>>>>
    ELSE LET mid == (lo + hi) \div 2
             l == BLitRange(b, lo, mid)
             r == BLitRange(b, mid + 1, hi)
         IN  BCat(l, r)

\* the byte string of an explicit sequence of byte values
BLit(b) == BLitRange(b, 1, Len(b))

\* the explicit sequence of byte values of runs i.. of a (short) byte string
RECURSIVE BExplicitFrom(_, _)
BExplicitFrom(bs, i) ==
    IF i > Len(bs) THEN <<>>
    ELSE LET r == bs[i]
         IN  [j \in 1..r[3] |-> IF IsLit(r[1]) THEN r[1] ELSE <<r[1], r[2] + j - 1>>]
                 \o BExplicitFrom(bs, i + 1)

BExplicit(bs) == BExplicitFrom(bs, 1)

\* every byte of bs has a known value
BKnown(bs) == \A i \in 1..Len(bs) : IsLit(bs[i][1])

\* slice::chunks(n): the pieces of n bytes of bs, the last one shorter when n
\* does not divide the length
BChunks(bs, n) ==
    [i \in 1..((BLen(bs) + n - 1) \div n) |-> BSub(bs, (i - 1) * n, n)]

-----------------------------------------------------------------------------
(* Fixed-width integers as little-endian sequences of 16-bit limbs.        *)

Base == 256 * 256

Pow2(k) == CASE k = 0 -> 1 [] k = 1 -> 2 [] k = 2 -> 4 [] k = 3 -> 8
             [] k = 4 -> 16 [] k = 5 -> 32 [] k = 6 -> 64 [] k = 7 -> 128
             [] k = 8 -> 256 [] k = 9 -> 512 [] k = 10 -> 1024 [] k = 11 -> 2048
             [] k = 12 -> 4096 [] k = 13 -> 8192 [] k = 14 -> 16384
             [] k = 15 -> 32768 [] k = 16 -> 65536

\* the w-limb value of a natural number below 2^31
WNat(n, w) == [i \in 1..w |-> IF i = 1 THEN n % Base ELSE IF i = 2 THEN n \div Base ELSE 0]

\* whether the value is below 2^30, so that sums of two still fit the checker
WSmall(a) ==
    /\ \A i \in 1..Len(a) : i > 2 => a[i] = 0
    /\ Len(a) >= 2 => a[2] < 16384

\* the natural number of a small value; undefined (an evaluation error) otherwise
WInt(a) == CASE WSmall(a) -> a[1] + (IF Len(a) >= 2 THEN a[2] * Base ELSE 0)

\* zero-extension to w limbs (`as u64`, `as usize`, `.into()`)
WExt(a, w) == [i \in 1..w |-> IF i <= Len(a) THEN a[i] ELSE 0]

\* truncation to w limbs (`as u32`)
WTrunc(a, w) == SubSeq(a, 1, w)

\* T::from_le_bytes: byte 2i-1 is the low half of limb i, byte 2i the high half
FromLeBytes(b) == [i \in 1..(Len(b) \div 2) |-> b[2 * i - 1] + 256 * b[2 * i]]

\* T::to_le_bytes
ToLeBytes(a) ==
    [i \in 1..(2 * Len(a)) |->
        IF i % 2 = 1 THEN a[(i + 1) \div 2] % 256 ELSE a[i \div 2] \div 256]

\* limbs i.. of a + b + c, followed by the carry out
RECURSIVE WAddFrom(_, _, _, _)
WAddFrom(a, b, i, c) ==
    IF i > Len(a) THEN <<c>>
    ELSE LET s == a[i] + b[i] + c
         IN  <<s % Base>> \o WAddFrom(a, b, i + 1, s \div Base)

\* a + b modulo 2^(16 * Len(a)), and whether the sum overflowed
WAdd(a, b) == SubSeq(WAddFrom(a, b, 1, 0), 1, Len(a))
WAddOverflows(a, b) == WAddFrom(a, b, 1, 0)[Len(a) + 1] = 1

\* limbs i.. of a - b - c, followed by the borrow out
RECURSIVE WSubFrom(_, _, _, _)
WSubFrom(a, b, i, c) ==
    IF i > Len(a) THEN <<c>>
    ELSE LET s == a[i] - b[i] - c
         IN  <<(s + Base) % Base>> \o WSubFrom(a, b, i + 1, IF s < 0 THEN 1 ELSE 0)

WSub(a, b) == SubSeq(WSubFrom(a, b, 1, 0), 1, Len(a))
WSubOverflows(a, b) == WSubFrom(a, b, 1, 0)[Len(a) + 1] = 1

\* unsigned a < b
WLt(a, b) == WSubOverflows(a, b)

\* logical shift right by k bits, 0 <= k < 16 * Len(a)
WShr(a, k) ==
    LET q == k \div 16
        r == k % 16
        L(i) == IF i <= Len(a) THEN a[i] ELSE 0
    IN  [j \in 1..Len(a) |->
            (L(j + q) \div Pow2(r)) + (L(j + q + 1) % Pow2(r)) * Pow2(16 - r)]

\* whether the top bit is set (a negative i64)
WNeg(a) == a[Len(a)] >= 32768

\* u32::ilog2 of a non-zero 16-bit limb
RECURSIVE Ilog2Limb(_)
Ilog2Limb(x) == IF x <= 1 THEN 0 ELSE 1 + Ilog2Limb(x \div 2)

\* the index of the highest non-zero limb (0 when the value is zero)
RECURSIVE TopLimb(_, _)
TopLimb(a, i) == IF i = 0 THEN 0 ELSE IF a[i] # 0 THEN i ELSE TopLimb(a, i - 1)


-----------------------------------------------------------------------------
(* Results: Ok(value), Err (an io::Error value), Panic (the thread unwinds). *)

Ok(v) == [st |-> "Ok", val |-> v, why |-> "ok"]
Err(w) == [st |-> "Err", val |-> <<>>, why |-> w]
Panic(w) == [st |-> "Panic", val |-> <<>>, why |-> w]

-----------------------------------------------------------------------------
(* The source: Read + Seek over the byte string d with the cursor at p.    *)

\* Read::read_exact: n bytes, or an UnexpectedEof error with the cursor at the end
ReadExact(d, p, n) ==
    IF p + n <= BLen(d)
    THEN [st |-> "Ok", bytes |-> BSub(d, p, n), pos |-> p + n]
    ELSE [st |-> "Err", bytes |-> <<>>, pos |-> Max(p, BLen(d))]

\* Read::take(n) drained by io::copy or read_to_end: up to n bytes, fewer at
\* the end of the source, never an error
ReadUpTo(d, p, n) ==
    LET b == BSub(d, p, n)
    IN  [bytes |-> b, pos |-> p + BLen(b)]

\* SeekFrom::Start(w) for a 64-bit offset w: an offset the checker cannot hold
\* as a number lies past the end of every source of the model
SeekTo(d, w) == IF WSmall(w) THEN WInt(w) ELSE BLen(d) + 1

-----------------------------------------------------------------------------
(* Superblock (src/src/superblock.rs): 96 packed bytes, accessors decode   *)
(* little-endian integers at fixed offsets.                                *)

MAGIC == 1936814952    \* 0x7371_7368

\* i64 -1, the "table absent" sentinel
INVALID_BLK == <<65535, 65535, 65535, 65535>>

\* u32 0xffffffff, "no tail fragment"
INVALID_FRAG == <<65535, 65535>>

\* get_set_field!: $typ::from_le_bytes(self.$get_name)
Field(rec, off, size) == FromLeBytes(BExplicit(BSub(rec, off, size)))

\* a u16 field as a number
Field16(rec, off) == Field(rec, off, 2)[1]

sb_magic(sb) == Field(sb, 0, 4)
sb_inodes(sb) == Field(sb, 4, 4)
sb_mkfs_time(sb) == Field(sb, 8, 4)
sb_block_size(sb) == Field(sb, 12, 4)
sb_fragments(sb) == Field(sb, 16, 4)
sb_compressor(sb) == Field16(sb, 20)
sb_block_log(sb) == Field16(sb, 22)
sb_flags(sb) == Field16(sb, 24)
sb_no_ids(sb) == Field16(sb, 26)
sb_version_major(sb) == Field16(sb, 28)
sb_version_minor(sb) == Field16(sb, 30)
sb_root_inode(sb) == Field(sb, 32, 8)
sb_bytes_used(sb) == Field(sb, 40, 8)
sb_id_table_start(sb) == Field(sb, 48, 8)
sb_xattr_id_table_start(sb) == Field(sb, 56, 8)
sb_inode_table_start(sb) == Field(sb, 64, 8)
sb_directory_table_start(sb) == Field(sb, 72, 8)
sb_fragment_table_start(sb) == Field(sb, 80, 8)
sb_export_table_start(sb) == Field(sb, 88, 8)


\* the accessors in the order get_set_field! declares them, block_log in
\* front of compressor
SbLayout_AccessorOrder ==
    << <<"magic", 4>>, <<"inodes", 4>>, <<"mkfs_time", 4>>, <<"block_size", 4>>,
       <<"fragments", 4>>, <<"block_log", 2>>, <<"compressor", 2>>, <<"flags", 2>>,
       <<"no_ids", 2>>, <<"version_major", 2>>, <<"version_minor", 2>>,
       <<"root_inode", 8>>, <<"bytes_used", 8>>, <<"id_table_start", 8>>,
       <<"xattr_id_table_start", 8>>, <<"inode_table_start", 8>>,
       <<"directory_table_start", 8>>, <<"fragment_table_start", 8>>,
       <<"export_table_start", 8>> >>
\* #[repr(C)] struct Superblock: the byte arrays in declaration order
SbLayout ==
    << <<"magic", 4>>, <<"inodes", 4>>, <<"mkfs_time", 4>>, <<"block_size", 4>>,
       <<"fragments", 4>>, <<"compressor", 2>>, <<"block_log", 2>>, <<"flags", 2>>,
       <<"no_ids", 2>>, <<"version_major", 2>>, <<"version_minor", 2>>,
       <<"root_inode", 8>>, <<"bytes_used", 8>>, <<"id_table_start", 8>>,
       <<"xattr_id_table_start", 8>>, <<"inode_table_start", 8>>,
       <<"directory_table_start", 8>>, <<"fragment_table_start", 8>>,
       <<"export_table_start", 8>> >>

\* the offset of the k-th member: byte arrays have alignment 1, so a member
\* starts where the one in front of it ends
RECURSIVE SbMemberOffset(_)
SbMemberOffset(k) == IF k = 1 THEN 0 ELSE SbMemberOffset(k - 1) + SbLayout[k - 1][2]

\* mem::size_of::<Superblock>()
SbSizeOf == SbMemberOffset(Len(SbLayout)) + SbLayout[Len(SbLayout)][2]

SbMember(name) == CHOOSE k \in 1..Len(SbLayout) : SbLayout[k][1] = name

\* the getter get_set_field! generates for the member `name`
SbGet(sb, name) ==
    Field(sb, SbMemberOffset(SbMember(name)), SbLayout[SbMember(name)][2])

\* u32::ilog2 of a non-zero value: the position of its highest set bit
U32Ilog2(a) ==
    LET t == TopLimb(a, Len(a))
    IN  16 * (t - 1) + Ilog2Limb(a[t])

\* Superblock::new: the next 96 bytes of the reader, validated
Superblock_new(d, p) ==
    LET r == ReadExact(d, p, SUPERBLOCK_SIZE)
        sb == r.bytes
    IN  IF r.st = "Err" THEN Err("UnexpectedEof")
        ELSE IF sb_magic(sb) # WNat(MAGIC, 2) THEN Err("invalid magic")
        ELSE IF TopLimb(sb_block_size(sb), 2) = 0 THEN Panic("ilog2 of zero")
        ELSE IF U32Ilog2(sb_block_size(sb)) # sb_block_log(sb)
             THEN Err("invalid block size")
        ELSE IF sb_xattr_id_table_start(sb) # INVALID_BLK THEN Err("xattrs in filesystem")
        ELSE Ok(sb)

\* Image::new: the superblock is read once and cached, the caches start empty
Image_new(d, p) ==
    LET r == Superblock_new(d, p)
    IN  IF r.st # "Ok" THEN r
        ELSE Ok([superblock |-> r.val, inode_hash_table |-> <<>>])

-----------------------------------------------------------------------------
(* Archives of the model: the bytes a writer of the format lays out.       *)

\* the 96 bytes of a superblock whose fields are the limb sequences of f
SbBytes(f) ==
    BLit(ToLeBytes(f.magic) \o ToLeBytes(f.inodes) \o ToLeBytes(f.mkfs_time)
         \o ToLeBytes(f.block_size) \o ToLeBytes(f.fragments)
         \o ToLeBytes(<<f.compressor>>) \o ToLeBytes(<<f.block_log>>)
         \o ToLeBytes(<<f.flags>>) \o ToLeBytes(<<f.no_ids>>)
         \o ToLeBytes(<<f.version_major>>) \o ToLeBytes(<<f.version_minor>>)
         \o ToLeBytes(f.root_inode) \o ToLeBytes(f.bytes_used)
         \o ToLeBytes(f.id_table_start) \o ToLeBytes(f.xattr_id_table_start)
         \o ToLeBytes(f.inode_table_start) \o ToLeBytes(f.directory_table_start)
         \o ToLeBytes(f.fragment_table_start) \o ToLeBytes(f.export_table_start))

\* a well-formed superblock: 128 KiB blocks, gzip, no tables
SbDefault ==
    [magic |-> WNat(MAGIC, 2), inodes |-> WNat(0, 2), mkfs_time |-> WNat(0, 2),
     block_size |-> WNat(131072, 2), fragments |-> WNat(0, 2),
     compressor |-> 1, block_log |-> 17, flags |-> 0, no_ids |-> 0,
     version_major |-> 4, version_minor |-> 0,
     root_inode |-> WNat(0, 4), bytes_used |-> WNat(96, 4),
     id_table_start |-> WNat(96, 4), xattr_id_table_start |-> INVALID_BLK,
     inode_table_start |-> WNat(96, 4), directory_table_start |-> WNat(96, 4),
     fragment_table_start |-> WNat(96, 4), export_table_start |-> INVALID_BLK]

-----------------------------------------------------------------------------
(* SpecSB: Superblock::new and Image::new on headers drawn from small sets. *)

MaxTrail == 2           \* bytes that may follow (or be missing from) the header

SbMagics == {WNat(MAGIC, 2), WNat(0, 2), WNat(MAGIC + 1, 2), <<65535, 65535>>}
SbBlockSizes ==
    {WNat(0, 2), WNat(1, 2), WNat(2, 2), WNat(3, 2), WNat(4, 2), WNat(5, 2),
     WNat(4096, 2), WNat(4097, 2), WNat(131072, 2), WNat(196608, 2),
     <<0, 32768>>, <<65535, 65535>>}
SbBlockLogs == {0, 1, 2, 12, 17, 31, 32, 65535}
SbXattrs == {INVALID_BLK, WNat(0, 4), WNat(42, 4)}

\* a well-formed superblock whose fields all differ
SbDistinct ==
    [magic |-> WNat(MAGIC, 2), inodes |-> <<513, 1027>>, mkfs_time |-> <<1541, 2055>>,
     block_size |-> WNat(4096, 2), fragments |-> <<2569, 3083>>,
     compressor |-> 4, block_log |-> 12, flags |-> 3597, no_ids |-> 4111,
     version_major |-> 4625, version_minor |-> 5139,
     root_inode |-> <<5653, 6167, 6681, 7195>>,
     bytes_used |-> <<7709, 8223, 8737, 9251>>,
     id_table_start |-> <<9765, 10279, 10793, 11307>>,
     xattr_id_table_start |-> INVALID_BLK,
     inode_table_start |-> <<11821, 12335, 12849, 13363>>,
     directory_table_start |-> <<13877, 14391, 14905, 15419>>,
     fragment_table_start |-> <<15933, 16447, 16961, 17475>>,
     export_table_start |-> <<17989, 18503, 19017, 65535>>]

SbHeaders ==
    { SbBytes([f EXCEPT !.magic = m, !.block_size = bs, !.block_log = bl,
                        !.xattr_id_table_start = x]) :
        f \in {SbDefault, SbDistinct},
        m \in SbMagics, bs \in SbBlockSizes, bl \in SbBlockLogs, x \in SbXattrs }

InitSB ==
    /\ \E h \in SbHeaders, t \in 0..MaxTrail, cut \in BOOLEAN :
          disk = IF cut THEN BTake(h, SUPERBLOCK_SIZE - 1 - t) ELSE BCat(h, BFill(0, t))
    /\ codec = <<>>
    /\ pos = 0
    /\ env = [op |-> "none"]
    /\ pc = "ready"
    /\ ret = Err("not run")
    /\ fetched = <<>>

DoSuperblockNew ==
    /\ pc = "ready"
    /\ env' = [op |-> "Superblock::new"]
    /\ ret' = Superblock_new(disk, pos)
    /\ pos' = ReadExact(disk, pos, SUPERBLOCK_SIZE).pos
    /\ pc' = "done"
    /\ UNCHANGED <<disk, codec, fetched>>

DoImageNew ==
    /\ pc = "ready"
    /\ env' = [op |-> "Image::new"]
    /\ ret' = Image_new(disk, pos)
    /\ pos' = ReadExact(disk, pos, SUPERBLOCK_SIZE).pos
    /\ pc' = "done"
    /\ UNCHANGED <<disk, codec, fetched>>

NextSB == DoSuperblockNew \/ DoImageNew

SpecSB == InitSB /\ [][NextSB]_vars

\* the u32 value 1 << k, for k < 32
Shl1(k) == [i \in 1..2 |-> IF i = (k \div 16) + 1 THEN Pow2(k % 16) ELSE 0]

\* block_size == 1 << block_log, as the format defines it
SbLogOk(sb) == sb_block_log(sb) < 32 /\ sb_block_size(sb) = Shl1(sb_block_log(sb))

\* the superblock the operation returned, for either operation
RetSb == IF env.op = "Image::new" THEN ret.val.superblock ELSE ret.val

(* C1: Superblock::new (and Image::new) returns an error value, never a    *)
(* Superblock, for every 96-byte header with a wrong magic, with           *)
(* block_size # 1 << block_log (block_size 0 and non-powers of two         *)
(* included) or with xattr_id_table_start # -1; so every cached superblock *)
(* has block_size = 1 << block_log.                                        *)
C1_RejectsBadHeaders ==
    (pc = "done" /\ BLen(disk) >= SUPERBLOCK_SIZE) =>
        LET sb == BTake(disk, SUPERBLOCK_SIZE)
            bad == \/ sb_magic(sb) # WNat(MAGIC, 2)
                   \/ ~SbLogOk(sb)
                   \/ sb_xattr_id_table_start(sb) # INVALID_BLK
        IN  /\ bad => ret.st = "Err"
            /\ ret.st = "Ok" => SbLogOk(RetSb)


\* the little-endian integer w is stored in the size bytes at offset off of
\* the header the reader delivered
SbStoredAt(off, size, w) ==
    BExplicit(BSub(disk, off, size)) = ToLeBytes(w)

(* C19: Superblock::new consumes exactly 96 bytes of a reader that holds   *)
(* them, and for every accepted header each accessor returns the           *)
(* little-endian integer stored at its fixed offset: magic 0, inodes 4,    *)
(* mkfs_time 8, block_size 12, fragments 16, compressor 20, block_log 22,  *)
(* flags 24, no_ids 26, version_major 28, version_minor 30, root_inode 32, *)
(* bytes_used 40, id_table_start 48, xattr_id_table_start 56,              *)
(* inode_table_start 64, directory_table_start 72, fragment_table_start    *)
(* 80, export_table_start 88; the members tile the 96 bytes.               *)
C19_AccessorsAtFixedOffsets ==
    (pc = "done" /\ BLen(disk) >= SUPERBLOCK_SIZE) =>
        /\ pos = SUPERBLOCK_SIZE
        /\ SbSizeOf = SUPERBLOCK_SIZE
        /\ ret.st = "Ok" =>
              /\ SbStoredAt(0, 4, SbGet(RetSb, "magic"))
              /\ SbStoredAt(4, 4, SbGet(RetSb, "inodes"))
              /\ SbStoredAt(8, 4, SbGet(RetSb, "mkfs_time"))
              /\ SbStoredAt(12, 4, SbGet(RetSb, "block_size"))
              /\ SbStoredAt(16, 4, SbGet(RetSb, "fragments"))
              /\ SbStoredAt(20, 2, SbGet(RetSb, "compressor"))
              /\ SbStoredAt(22, 2, SbGet(RetSb, "block_log"))
              /\ SbStoredAt(24, 2, SbGet(RetSb, "flags"))
              /\ SbStoredAt(26, 2, SbGet(RetSb, "no_ids"))
              /\ SbStoredAt(28, 2, SbGet(RetSb, "version_major"))
              /\ SbStoredAt(30, 2, SbGet(RetSb, "version_minor"))
              /\ SbStoredAt(32, 8, SbGet(RetSb, "root_inode"))
              /\ SbStoredAt(40, 8, SbGet(RetSb, "bytes_used"))
              /\ SbStoredAt(48, 8, SbGet(RetSb, "id_table_start"))
              /\ SbStoredAt(56, 8, SbGet(RetSb, "xattr_id_table_start"))
              /\ SbStoredAt(64, 8, SbGet(RetSb, "inode_table_start"))
              /\ SbStoredAt(72, 8, SbGet(RetSb, "directory_table_start"))
              /\ SbStoredAt(80, 8, SbGet(RetSb, "fragment_table_start"))
              /\ SbStoredAt(88, 8, SbGet(RetSb, "export_table_start"))
              \* the accessors the other operations use read the same members
              /\ sb_magic(RetSb) = SbGet(RetSb, "magic")
              /\ sb_inodes(RetSb) = SbGet(RetSb, "inodes")
              /\ sb_mkfs_time(RetSb) = SbGet(RetSb, "mkfs_time")
              /\ sb_block_size(RetSb) = SbGet(RetSb, "block_size")
              /\ sb_fragments(RetSb) = SbGet(RetSb, "fragments")
              /\ <<sb_compressor(RetSb)>> = SbGet(RetSb, "compressor")
              /\ <<sb_block_log(RetSb)>> = SbGet(RetSb, "block_log")
              /\ <<sb_flags(RetSb)>> = SbGet(RetSb, "flags")
              /\ <<sb_no_ids(RetSb)>> = SbGet(RetSb, "no_ids")
              /\ <<sb_version_major(RetSb)>> = SbGet(RetSb, "version_major")
              /\ <<sb_version_minor(RetSb)>> = SbGet(RetSb, "version_minor")
              /\ sb_root_inode(RetSb) = SbGet(RetSb, "root_inode")
              /\ sb_bytes_used(RetSb) = SbGet(RetSb, "bytes_used")
              /\ sb_id_table_start(RetSb) = SbGet(RetSb, "id_table_start")
              /\ sb_xattr_id_table_start(RetSb) = SbGet(RetSb, "xattr_id_table_start")
              /\ sb_inode_table_start(RetSb) = SbGet(RetSb, "inode_table_start")
              /\ sb_directory_table_start(RetSb) = SbGet(RetSb, "directory_table_start")
              /\ sb_fragment_table_start(RetSb) = SbGet(RetSb, "fragment_table_start")
              /\ sb_export_table_start(RetSb) = SbGet(RetSb, "export_table_start")

\* an accepted header whose nineteen fields hold nineteen different values,
\* followed by bytes the constructor must leave unread
C19_Witness ==
    /\ pc = "done" /\ env.op = "Superblock::new" /\ ret.st = "Ok"
    /\ BLen(disk) > SUPERBLOCK_SIZE
    /\ Cardinality({SbGet(ret.val, SbLayout[k][1]) : k \in 1..Len(SbLayout)})
          = Len(SbLayout)

-----------------------------------------------------------------------------
(* Compressor (src/src/compressors.rs).  GZIP and XZ hand the payload to   *)
(* zlib / liblzma; the model holds what those libraries do as the table    *)
(* codec: an opaque content s in its domain is a complete compressed       *)
(* stream of codec[s].len bytes that decompresses to codec[s].out.  Any    *)
(* other payload (garbage, a truncated stream) is a decoder error.         *)

\* Decompress::decompress(reader over buf, writer): the bytes produced
decompress(buf) ==
    IF /\ Len(buf) = 1
       /\ buf[1][1] \in DOMAIN codec
       /\ buf[1][2] = 0
       /\ buf[1][3] = codec[buf[1][1]].len
    THEN Ok(codec[buf[1][1]].out)
    ELSE Err("corrupt stream")

-----------------------------------------------------------------------------
(* Writers.  A Vec<u8> appends what is written to it.  A &mut [u8] is      *)
(* overwritten from its start and cannot grow: room is what is left of it. *)

VecWriter(initial) == [kind |-> "vec", buf |-> initial, room |-> 0]
SliceWriter(len) == [kind |-> "slice", buf |-> <<>>, room |-> len]

\* io::copy into the writer: all of data, or for a full slice an error
\* (WriteZero) after the part that fits
WriteAll(w, data) ==
    IF w.kind = "vec"
    THEN [st |-> "Ok", w |-> [w EXCEPT !.buf = BCat(w.buf, data)]]
    ELSE IF BLen(data) <= w.room
    THEN [st |-> "Ok",
          w |-> [w EXCEPT !.buf = BCat(w.buf, data), !.room = w.room - BLen(data)]]
    ELSE [st |-> "Err",
          w |-> [w EXCEPT !.buf = BCat(w.buf, BTake(data, w.room)), !.room = 0]]

-----------------------------------------------------------------------------
(* Metadata-block reader (src/src/read.rs).                                *)

COMPRESSED_BIT == 32768    \* 1 << 15

\* read_block_header: the u16 at p, split into (compressed, compressed_size)
read_block_header(d, p) ==
    Eval({(IF r.st = "Err" THEN [st |-> "Err", why |-> "UnexpectedEof", pos |-> r.pos]
           ELSE Eval({(IF block_header % COMPRESSED_BIT > METADATA_SIZE
                       THEN [st |-> "Panic", why |-> "bad metadata size", pos |-> r.pos]
                       ELSE [st |-> "Ok", why |-> "ok", pos |-> r.pos,
                             compressed |-> (block_header \div COMPRESSED_BIT) % 2 = 0,
                             compressed_size |-> block_header % COMPRESSED_BIT])
               : block_header \in {FromLeBytes(BExplicit(r.bytes))[1]}}))
        : r \in {ReadExact(d, p, 2)}})

\* a read_block that answers the stored size without the two header bytes
read_block_StoredSizeOnly(d, w, start, expected) ==
    Eval({(IF h.st # "Ok"
           THEN [st |-> h.st, val |-> 0, why |-> h.why, pos |-> h.pos, w |-> w]
           ELSE Eval({(IF h.compressed
                       THEN Eval({(IF z.st = "Err"
                                   THEN [st |-> "Err", val |-> 0, why |-> z.why,
                                         pos |-> payload.pos, w |-> w]
                                   ELSE Eval({(IF zw.st = "Err"
                                               THEN [st |-> "Err", val |-> 0, why |-> "WriteZero",
                                                     pos |-> payload.pos, w |-> zw.w]
                                               ELSE [st |-> "Ok", val |-> h.compressed_size,
                                                     why |-> "ok", pos |-> payload.pos,
                                                     w |-> zw.w])
                                       : zw \in {WriteAll(w, z.val)}}))
                               : z \in {decompress(payload.bytes)}})
                       ELSE Eval({(IF rw.st = "Err"
                                   THEN [st |-> "Err", val |-> 0, why |-> "WriteZero",
                                         pos |-> payload.pos, w |-> rw.w]
                                   ELSE [st |-> "Ok", val |-> h.compressed_size, why |-> "ok",
                                         pos |-> payload.pos, w |-> rw.w])
                               : rw \in {WriteAll(w, payload.bytes)}}))
               : payload \in {ReadUpTo(d, h.pos, h.compressed_size)}}))
        : h \in {read_block_header(d, start)}})

\* read_block(reader, writer, compressor, start, expected): the block framed
\* at start goes to the writer w; expected is <<>> (None) or <<n>> (Some(n)).
\* Returns the result, the cursor and the writer as the call leaves them.
read_block(d, w, start, expected) ==
    Eval({(IF h.st # "Ok"
           THEN [st |-> h.st, val |-> 0, why |-> h.why, pos |-> h.pos, w |-> w]
           ELSE Eval({(IF h.compressed
                       THEN Eval({(IF z.st = "Err"
                                   THEN [st |-> "Err", val |-> 0, why |-> z.why,
                                         pos |-> payload.pos, w |-> w]
                                   ELSE Eval({(IF zw.st = "Err"
                                               THEN [st |-> "Err", val |-> 0, why |-> "WriteZero",
                                                     pos |-> payload.pos, w |-> zw.w]
                                               ELSE IF expected # <<>> /\ expected[1] # BLen(z.val)
                                               THEN [st |-> "Panic", val |-> 0,
                                                     why |-> "expected != written",
                                                     pos |-> payload.pos, w |-> zw.w]
                                               ELSE [st |-> "Ok", val |-> h.compressed_size + 2,
                                                     why |-> "ok", pos |-> payload.pos,
                                                     w |-> zw.w])
                                       : zw \in {WriteAll(w, z.val)}}))
                               : z \in {decompress(payload.bytes)}})
                       ELSE Eval({(IF rw.st = "Err"
                                   THEN [st |-> "Err", val |-> 0, why |-> "WriteZero",
                                         pos |-> payload.pos, w |-> rw.w]
                                   ELSE [st |-> "Ok", val |-> h.compressed_size + 2, why |-> "ok",
                                         pos |-> payload.pos, w |-> rw.w])
                               : rw \in {WriteAll(w, payload.bytes)}}))
               : payload \in {ReadUpTo(d, h.pos, h.compressed_size)}}))
        : h \in {read_block_header(d, start)}})

-----------------------------------------------------------------------------
(* Inode decoders (src/src/inode.rs).  The reader is the byte string d     *)
(* with a cursor p.  A build is [overflow_checks, big_alloc]: arithmetic   *)
(* overflow panics with overflow checks (debug profile) and wraps without  *)
(* (release profile); big_alloc says whether the allocator grants a        *)
(* request of 2^30 bytes or more.                                          *)

Builds == [overflow_checks : BOOLEAN, big_alloc : BOOLEAN]

\* impl From<u16> for InodeType, with the two tags of a pair kept apart
InodeType_from(value) ==
    CASE value = 1 -> "Directory" [] value = 2 -> "File" [] value = 3 -> "Symlink"
      [] value = 4 -> "BlockDevice" [] value = 5 -> "CharacterDevice"
      [] value = 6 -> "NamedPipe" [] value = 7 -> "Socket"
      [] value = 8 -> "LDirectory" [] value = 9 -> "LFile" [] value = 10 -> "LSymlink"
      [] value = 11 -> "LBlockDevice" [] value = 12 -> "LCharacterDevice"
      [] value = 13 -> "LNamedPipe" [] value = 14 -> "LSocket"
      [] OTHER -> "Unknown"

DIRECTORY_INODE_HEADER_SIZE == 32
LDIRECTORY_INODE_HEADER_SIZE == 40
DIRECTORY_INDEX_SIZE == 12
REGULAR_INODE_HEADER_SIZE == 32
LREGULAR_INODE_HEADER_SIZE == 56
SYMLINK_INODE_HEADER_SIZE == 24
DEV_INODE_HEADER_SIZE == 24
LDEV_INODE_HEADER_SIZE == 28
IPC_INODE_HEADER_SIZE == 20
LIPC_INODE_HEADER_SIZE == 24

\* a decoded inode: the variant of InodeHeader, the fixed record, and the
\* trailers (block list, directory index, symlink bytes, symlink xattr)
Inode(variant, hdr) ==
    [variant |-> variant, hdr |-> hdr, has_blocks |-> FALSE, blocks |-> <<>>,
     index |-> <<>>, text |-> <<>>, xattr |-> <<>>]

DecodeOk(v, p) == [st |-> "Ok", val |-> v, why |-> "ok", pos |-> p]
DecodeErr(w, p) == [st |-> "Err", val |-> <<>>, why |-> w, pos |-> p]
DecodePanic(w, p) == [st |-> "Panic", val |-> <<>>, why |-> w, pos |-> p]

\* the first lines of every from_parsed_inode_type: the tag goes back into
\* buf[0..2] and read_exact fills the rest of the fixed record
FixedRecord(d, p, tag, size) ==
    Eval({([st |-> r.st, hdr |-> BCat(BLit(ToLeBytes(<<tag>>)), r.bytes), pos |-> r.pos])
        : r \in {ReadExact(d, p, size - 2)}})

\* DirectoryInodeHeader, DevInodeHeader, LDevInodeHeader, IPCInodeHeader,
\* LIPCInodeHeader ::from_parsed_inode_type: the fixed record and nothing else
Plain_from_parsed_inode_type(variant, size, tag, d, p) ==
    Eval({(IF f.st = "Err" THEN DecodeErr("UnexpectedEof", f.pos)
           ELSE DecodeOk(Inode(variant, f.hdr), f.pos))
        : f \in {FixedRecord(d, p, tag, size)}})

\* fragment_blocks(fragment, file_size, superblock): file_size is a u64
WZero(w) == [i \in 1..w |-> 0]
WOne(w) == [i \in 1..w |-> IF i = 1 THEN 1 ELSE 0]

fragment_blocks(fragment, file_size, sb, build) ==
    IF fragment = INVALID_FRAG
    THEN Eval({(IF build.overflow_checks /\ WAddOverflows(file_size, bs)
                THEN Panic("attempt to add with overflow")
                ELSE IF build.overflow_checks /\ WAdd(file_size, bs) = WZero(4)
                THEN Panic("attempt to subtract with overflow")
                ELSE Ok(WShr(WSub(WAdd(file_size, bs), WOne(4)), sb_block_log(sb))))
             : bs \in {WExt(sb_block_size(sb), 4)}})
    ELSE Ok(WShr(file_size, sb_block_log(sb)))

\* block_list(blocks, reader): take(blocks * 4) drained by read_to_end, then
\* one u32 per 4-byte chunk; a shorter last chunk fails clone_from_slice
block_list(blocks, d, p, build) ==
    Eval({(IF build.overflow_checks
                 /\ (WAddOverflows(blocks, blocks) \/ WAddOverflows(twice, twice))
           THEN DecodePanic("attempt to multiply with overflow", p)
           ELSE Eval({(IF WNeg(blocks_list_size)
                       THEN DecodePanic("capacity overflow", p)
                       ELSE IF ~WSmall(blocks_list_size) /\ ~build.big_alloc
                       THEN DecodePanic("memory allocation failed", p)
                       ELSE Eval({(IF BLen(got.bytes) % 4 # 0
                                   THEN DecodePanic("clone_from_slice: length mismatch", got.pos)
                                   ELSE Eval({(DecodeOk([i \in 1..Len(chunks) |->
                                                            Field(chunks[i], 0, 4)], got.pos))
                                           : chunks \in {BChunks(got.bytes, 4)}}))
                               : got \in {ReadUpTo(d, p, IF WSmall(blocks_list_size)
                                                         THEN WInt(blocks_list_size)
                                                         ELSE BLen(d))}}))
                   : blocks_list_size \in {WAdd(twice, twice)}}))
        : twice \in {WAdd(blocks, blocks)}})

\* RegularInodeHeader::from_parsed_inode_type
Regular_from_parsed_inode_type(tag, d, p, sb, build) ==
    Eval({(IF f.st = "Err" THEN DecodeErr("UnexpectedEof", f.pos)
           ELSE Eval({(IF fragments # INVALID_FRAG /\ WLt(sb_fragments(sb), fragments)
                       THEN DecodeErr("corrupted filesystem", f.pos)
                       ELSE Eval({(IF fb.st = "Panic" THEN DecodePanic(fb.why, f.pos)
                                   ELSE IF fb.val = WZero(4)
                                   THEN DecodeOk(Inode("Regular", f.hdr), f.pos)
                                   ELSE Eval({(IF bl.st # "Ok" THEN bl
                                               ELSE DecodeOk([Inode("Regular", f.hdr) EXCEPT
                                                                 !.has_blocks = TRUE,
                                                                 !.blocks = bl.val], bl.pos))
                                           : bl \in {block_list(fb.val, d, f.pos, build)}}))
                               : fb \in {fragment_blocks(fragments,
                                                         WExt(Field(f.hdr, 28, 4), 4),
                                                         sb, build)}}))
                   : fragments \in {Field(f.hdr, 20, 4)}}))
        : f \in {FixedRecord(d, p, tag, REGULAR_INODE_HEADER_SIZE)}})

\* LRegularInodeHeader::from_parsed_inode_type
LRegular_from_parsed_inode_type(tag, d, p, sb, build) ==
    Eval({(IF f.st = "Err" THEN DecodeErr("UnexpectedEof", f.pos)
           ELSE Eval({(IF fb.st = "Panic" THEN DecodePanic(fb.why, f.pos)
                       ELSE Eval({(IF bl.st # "Ok" THEN bl
                                   ELSE DecodeOk([Inode("LRegular", f.hdr) EXCEPT
                                                     !.has_blocks = TRUE,
                                                     !.blocks = bl.val], bl.pos))
                               : bl \in {block_list(fb.val, d, f.pos, build)}}))
                   : fb \in {fragment_blocks(Field(f.hdr, 44, 4), Field(f.hdr, 24, 8),
                                             sb, build)}}))
        : f \in {FixedRecord(d, p, tag, LREGULAR_INODE_HEADER_SIZE)}})

\* SymlinkInodeHeader::from_parsed_inode_type
Symlink_from_parsed_inode_type(tag, d, p, is_extended) ==
    Eval({(IF f.st = "Err" THEN DecodeErr("UnexpectedEof", f.pos)
           ELSE Eval({(Eval({(IF ~is_extended THEN DecodeOk(inode, t.pos)
                              ELSE Eval({(IF x.st = "Err" THEN DecodeErr("UnexpectedEof", x.pos)
                                          ELSE DecodeOk([inode EXCEPT
                                                            !.xattr = <<Field(x.bytes, 0, 4)>>],
                                                        x.pos))
                                      : x \in {ReadExact(d, t.pos, 4)}}))
                          : inode \in {[Inode(IF is_extended THEN "LSymlink" ELSE "Symlink",
                                              f.hdr) EXCEPT !.text = t.bytes]}}))
                   : t \in {ReadUpTo(d, f.pos, IF WSmall(Field(f.hdr, 20, 4))
                                               THEN WInt(Field(f.hdr, 20, 4))
                                               ELSE BLen(d))}}))
        : f \in {FixedRecord(d, p, tag, SYMLINK_INODE_HEADER_SIZE)}})

\* the loop of LDirectoryInodeHeader::from_parsed_inode_type: `left` more
\* DirectoryIndex records, each followed by size + 1 skipped bytes
RECURSIVE LDirectoryIndexes(_, _, _, _, _)
LDirectoryIndexes(d, p, left, index, build) ==
    IF left = 0 THEN DecodeOk(index, p)
    ELSE Eval({(IF r.st = "Err" THEN DecodeErr("UnexpectedEof", r.pos)
                ELSE Eval({(IF build.overflow_checks /\ WAddOverflows(size, WOne(2))
                            THEN DecodePanic("attempt to add with overflow", r.pos)
                            ELSE Eval({(LDirectoryIndexes(d, next, left - 1,
                                                          Append(index, r.bytes), build))
                                    : next \in {IF WSmall(WAdd(size, WOne(2)))
                                                THEN ReadUpTo(d, r.pos,
                                                         WInt(WExt(WAdd(size, WOne(2)), 4))).pos
                                                ELSE Max(r.pos, BLen(d))}}))
                        : size \in {Field(r.bytes, 8, 4)}}))
             : r \in {ReadExact(d, p, DIRECTORY_INDEX_SIZE)}})

\* LDirectoryInodeHeader::from_parsed_inode_type
LDirectory_from_parsed_inode_type(tag, d, p, build) ==
    Eval({(IF f.st = "Err" THEN DecodeErr("UnexpectedEof", f.pos)
           ELSE Eval({(IF ix.st # "Ok" THEN ix
                       ELSE DecodeOk([Inode("LDirectory", f.hdr) EXCEPT !.index = ix.val],
                                     ix.pos))
                   : ix \in {LDirectoryIndexes(d, f.pos, Field16(f.hdr, 32), <<>>, build)}}))
        : f \in {FixedRecord(d, p, tag, LDIRECTORY_INODE_HEADER_SIZE)}})

\* read_inode_header(reader, superblock)
read_inode_header(d, p, sb, build) ==
    Eval({(IF t.st = "Err" THEN DecodeErr("UnexpectedEof", t.pos)
           ELSE Eval({(LET inode_type == InodeType_from(tag)
                       IN  CASE inode_type = "Directory" ->
                               Plain_from_parsed_inode_type("Directory", DIRECTORY_INODE_HEADER_SIZE,
                                                            tag, d, t.pos)
                          [] inode_type = "File" ->
                               Regular_from_parsed_inode_type(tag, d, t.pos, sb, build)
                          [] inode_type = "Symlink" ->
                               Symlink_from_parsed_inode_type(tag, d, t.pos, FALSE)
                          [] inode_type = "LSymlink" ->
                               Symlink_from_parsed_inode_type(tag, d, t.pos, TRUE)
                          [] inode_type \in {"CharacterDevice", "BlockDevice"} ->
                               Plain_from_parsed_inode_type("Dev", DEV_INODE_HEADER_SIZE, tag, d, t.pos)
                          [] inode_type \in {"NamedPipe", "Socket"} ->
                               Plain_from_parsed_inode_type("IPC", IPC_INODE_HEADER_SIZE, tag, d, t.pos)
                          [] inode_type = "LDirectory" ->
                               LDirectory_from_parsed_inode_type(tag, d, t.pos, build)
                          [] inode_type = "LFile" ->
                               LRegular_from_parsed_inode_type(tag, d, t.pos, sb, build)
                          [] inode_type \in {"LCharacterDevice", "LBlockDevice"} ->
                               Plain_from_parsed_inode_type("LDev", LDEV_INODE_HEADER_SIZE, tag, d, t.pos)
                          [] inode_type \in {"LNamedPipe", "LSocket"} ->
                               Plain_from_parsed_inode_type("LIPC", LIPC_INODE_HEADER_SIZE, tag, d, t.pos)
                          [] OTHER -> DecodePanic("not implemented", t.pos))
                   : tag \in {FromLeBytes(BExplicit(t.bytes))[1]}}))
        : t \in {ReadExact(d, p, 2)}})

-----------------------------------------------------------------------------
(* Image::compressor (src/src/image.rs) and Compressor::new               *)
(* (src/src/compressors.rs).                                               *)

COMPRESSOR_OPTIONS_PRESENT == 1024     \* 0x0400

\* Compressor::new(compressor, compressor_options_present, reader) with the
\* reader at p
Compressor_new(compressor, compressor_options_present, d, p) ==
    IF compressor \notin {1, 4} THEN Panic("not yet implemented")
    ELSE IF ~compressor_options_present
    THEN Ok([kind |-> IF compressor = 1 THEN "GZIP" ELSE "XZ", opts |-> BFill(0, 8)])
    ELSE Eval({(IF opts.st = "Err" THEN Err("UnexpectedEof")
                ELSE Ok([kind |-> IF compressor = 1 THEN "GZIP" ELSE "XZ",
                         opts |-> opts.bytes]))
             : opts \in {ReadExact(d, p, 8)}})

\* Image::compressor without its seek: the options are read where the cursor is
Image_compressor_NoSeek(d, sb) ==
    Compressor_new(sb_compressor(sb),
                   (sb_flags(sb) \div COMPRESSOR_OPTIONS_PRESENT) % 2 = 1,
                   d, pos)
\* Image::compressor
Image_compressor(d, sb) ==
    Compressor_new(sb_compressor(sb),
                   (sb_flags(sb) \div COMPRESSOR_OPTIONS_PRESENT) % 2 = 1,
                   d, SUPERBLOCK_SIZE)

-----------------------------------------------------------------------------
(* Inode-table scanner (src/src/inode.rs, scan_inode_table).               *)

\* a < b for i64 values
WSLt(a, b) == IF WNeg(a) # WNeg(b) THEN WNeg(a) ELSE WLt(a, b)
\* i64 addition of a non-negative b leaves the range
WSAddOverflows(a, b) == ~WNeg(a) /\ WNeg(WAdd(a, b))
\* i64 subtraction leaves the range
WSSubOverflows(a, b) == WNeg(a) # WNeg(b) /\ WNeg(WSub(a, b)) # WNeg(a)
\* a & !(METADATA_SIZE - 1)
WAlignDown(a) == [i \in 1..Len(a) |-> IF i = 1 THEN a[1] - (a[1] % METADATA_SIZE) ELSE a[i]]

ScanFail(st, why, blocks) == [st |-> st, val |-> <<>>, why |-> why, blocks |-> blocks]

\* the `while start < end` loop: blocks is the record of the fetches made
\* (file offset, logical offset, bytes appended, outcome of read_block), kept
\* for the properties
RECURSIVE ScanBlocks(_, _, _, _, _, _, _, _)
ScanBlocks(d, start, end, root_inode_start, inode_table, root_inode_block, blocks, build) ==
    IF ~WSLt(start, end)
    THEN [st |-> "Ok", why |-> "ok", inode_table |-> inode_table,
          root_inode_block |-> root_inode_block, blocks |-> blocks]
    ELSE Eval({(LET found == IF start = root_inode_start THEN <<BLen(inode_table)>>
                   ELSE root_inode_block
          compressed_size == WNat(r.val, 4)
          fetches == Append(blocks, [start |-> start, at |-> BLen(inode_table),
                                     len |-> BLen(r.w.buf), read |-> "Ok"])
      IN  IF r.st # "Ok"
          THEN ScanFail(r.st, r.why,
                        Append(blocks, [start |-> start, at |-> BLen(inode_table),
                                        len |-> 0, read |-> r.st]))
          ELSE IF build.overflow_checks /\ WSAddOverflows(start, compressed_size)
          THEN ScanFail("Panic", "attempt to add with overflow", fetches)
          ELSE Eval({(IF n[1] # end /\ BLen(r.w.buf) # METADATA_SIZE
                      THEN ScanFail("Panic", "corrupted: bad metadata size", fetches)
                      ELSE ScanBlocks(d, n[1], end, root_inode_start, n[2], n[3],
                                      fetches, build))
              : n \in {<<WAdd(start, compressed_size), BCat(inode_table, r.w.buf), found>>}}))
        : r \in {read_block(d, VecWriter(<<>>), SeekTo(d, start), <<>>)}})

\* the `while !inode_table.is_empty()` loop: inode_headers with, for the
\* properties, the logical offset each one was decoded at
RECURSIVE ScanHeaders(_, _, _, _, _, _)
ScanHeaders(inode_table, p, sb, build, inode_headers, offsets) ==
    IF p >= BLen(inode_table)
    THEN [st |-> "Ok", why |-> "ok", inode_headers |-> inode_headers,
          offsets |-> offsets]
    ELSE Eval({(IF i.st # "Ok"
           THEN [st |-> i.st, why |-> i.why, inode_headers |-> inode_headers,
                 offsets |-> offsets]
           ELSE ScanHeaders(inode_table, i.pos, sb, build,
                            Append(inode_headers, i.val), Append(offsets, p)))
        : i \in {read_inode_header(inode_table, p, sb, build)}})

\* a root position that ignores the byte offset of the reference
RootPosition_BlockOnly(root_inode_block, root_inode_offset) == root_inode_block

\* where the root inode is decoded
RootPosition(root_inode_block, root_inode_offset) == root_inode_block + root_inode_offset

\* ((root_inode >> 16) as u32) as i64: the block part of the root reference
root_inode_blk(sb) == WExt(WTrunc(WShr(sb_root_inode(sb), 16), 2), 4)
\* let root_inode_start = start + (((root_inode >> 16) as u32) as i64)
root_inode_start_of(sb) == WAdd(sb_inode_table_start(sb), root_inode_blk(sb))
\* let root_inode_offset = (root_inode as u32 & 0xffff) as u32
root_inode_offset_of(sb) == WTrunc(sb_root_inode(sb), 2)[1]

\* scan_inode_table(reader, superblock, compressor)
scan_inode_table(d, sb, build) ==
    LET root_inode == sb_root_inode(sb)
        start == sb_inode_table_start(sb)
        end == sb_directory_table_start(sb)
        blk == root_inode_blk(sb)
        root_inode_start == root_inode_start_of(sb)
        root_inode_offset == root_inode_offset_of(sb)
        span == WSub(end, start)
        capacity == WAlignDown(WAdd(span, WNat(METADATA_SIZE, 4)))
    IN  IF build.overflow_checks /\ WSAddOverflows(start, blk)
        THEN ScanFail("Panic", "attempt to add with overflow", <<>>)
        ELSE IF build.overflow_checks /\ WSSubOverflows(end, start)
        THEN ScanFail("Panic", "attempt to subtract with overflow", <<>>)
        ELSE IF build.overflow_checks /\ WAddOverflows(span, WNat(METADATA_SIZE, 4))
        THEN ScanFail("Panic", "attempt to add with overflow", <<>>)
        ELSE IF WNeg(capacity) THEN ScanFail("Panic", "capacity overflow", <<>>)
        ELSE IF ~WSmall(capacity) /\ ~build.big_alloc
        THEN ScanFail("Panic", "memory allocation failed", <<>>)
        ELSE Eval({(IF loop.st # "Ok" THEN loop
          ELSE IF loop.root_inode_block = <<>>
          THEN ScanFail("Panic", "corrupted: no root inode block found", loop.blocks)
          ELSE IF BLen(loop.inode_table) - loop.root_inode_block[1]
                      < root_inode_offset + DIRECTORY_INODE_HEADER_SIZE
          THEN ScanFail("Panic", "corrupted: root inode metadata size incorrect",
                        loop.blocks)
          ELSE Eval({(IF dir_inode.st # "Ok"
            THEN ScanFail(dir_inode.st, dir_inode.why, loop.blocks)
            ELSE IF sb_inodes(sb)[2] >= 256 /\ ~build.big_alloc
            THEN ScanFail("Panic", "memory allocation failed", loop.blocks)
            ELSE Eval({(IF all.st # "Ok" THEN ScanFail(all.st, all.why, loop.blocks)
              ELSE [st |-> "Ok", why |-> "ok",
                    val |-> [root |-> dir_inode.val,
                             inode_headers |-> all.inode_headers],
                    blocks |-> loop.blocks,
                    inode_table |-> loop.inode_table,
                    root_inode_block |-> loop.root_inode_block[1],
                    offsets |-> all.offsets])
                : all \in {ScanHeaders(loop.inode_table, 0, sb, build, <<>>, <<>>)}}))
              : dir_inode \in {read_inode_header(loop.inode_table,
                        RootPosition(loop.root_inode_block[1], root_inode_offset),
                        sb, build)}}))
            : loop \in {ScanBlocks(d, start, end, root_inode_start, <<>>, <<>>, <<>>, build)}})

\* Image::inodes
Image_inodes(d, image, build) ==
    LET compressor == Image_compressor(d, image.superblock)
    IN  IF compressor.st # "Ok" THEN ScanFail(compressor.st, compressor.why, <<>>)
        ELSE scan_inode_table(d, image.superblock, build)

-----------------------------------------------------------------------------
(* Two-level tables (src/src/image.rs): an outer index of u64 pointers,    *)
(* each naming a metadata block of the table.  Entry counts of the model's *)
(* archives are below 2^22, where the usize arithmetic is exact.           *)

\* the outer index: up to n bytes at `start`, one 64-bit pointer per 8-byte
\* chunk; x.try_into() panics on a shorter last chunk
ReadIndex(d, start, n) ==
    Eval({(IF BLen(got.bytes) % 8 # 0 THEN Panic("could not convert slice to array")
      ELSE Eval({(Ok([i \in 1..Len(chunks) |-> Field(chunks[i], 0, 8)]))
          : chunks \in {BChunks(got.bytes, 8)}}))
        : got \in {ReadUpTo(d, SeekTo(d, start), n)}})

\* expected size of the i-th block (counted from 1) of a table of `bytes`
\* bytes in `blocks` blocks
ExpectedSize(i, blocks, bytes) ==
    IF i # blocks THEN METADATA_SIZE ELSE bytes % METADATA_SIZE

\* the block loop of Image::id_table from its i-th round: block is
\* vec![0u8; expected] and read_block gets the Vec itself as its writer
RECURSIVE IdTableBlocks(_, _, _, _, _, _)
IdTableBlocks(d, index, i, no_ids_blocks, no_ids_bytes, id_table) ==
    LET expected == ExpectedSize(i, no_ids_blocks, no_ids_bytes)
    IN  IF i > Len(index) \/ i > no_ids_blocks THEN Ok(id_table)
        ELSE Eval({(IF r.st = "Err" THEN Err(r.why)
               ELSE IF r.st = "Panic" THEN Panic(r.why)
               ELSE Eval({(IdTableBlocks(d, index, i + 1, no_ids_blocks, no_ids_bytes,
                                    grown))
                   : grown \in {BCat(id_table, r.w.buf)}}))
            : r \in {read_block(d, VecWriter(BFill(0, expected)), SeekTo(d, index[i]),
                             <<expected>>)}})

\* Image::id_table
Image_id_table(d, image) ==
    LET no_ids == sb_no_ids(image.superblock)
        no_ids_bytes == no_ids * 4
        no_ids_blocks == (no_ids_bytes + METADATA_SIZE - 1) \div METADATA_SIZE
        compressor == Image_compressor(d, image.superblock)
    IN  IF compressor.st # "Ok" THEN compressor
        ELSE Eval({(IF index.st # "Ok" THEN index
          ELSE Eval({(IF id_table.st # "Ok" THEN id_table
            ELSE IF BLen(id_table.val) % 4 # 0
            THEN Panic("could not convert slice to array")
            ELSE Eval({(Ok([k \in 1..Len(chunks) |-> Field(chunks[k], 0, 4)]))
                : chunks \in {BChunks(id_table.val, 4)}}))
              : id_table \in {IdTableBlocks(d, index.val, 1, no_ids_blocks, no_ids_bytes, <<>>)}}))
            : index \in {ReadIndex(d, sb_id_table_start(image.superblock), no_ids_blocks * 8)}})

\* the block loop of Image::export_table from its i-th round: block is
\* vec![0u8; expected] and read_block writes into the slice &mut block[..]
RECURSIVE ExportTableBlocks(_, _, _, _, _, _)
ExportTableBlocks(d, index, i, lookup_blocks, lookup_bytes, all_inodes) ==
    LET expected == ExpectedSize(i, lookup_blocks, lookup_bytes)
    IN  IF i > lookup_blocks THEN Ok(all_inodes)
        ELSE Eval({(IF r.st = "Err" THEN Err(r.why)
               ELSE IF r.st = "Panic" THEN Panic(r.why)
               ELSE Eval({(ExportTableBlocks(d, index, i + 1, lookup_blocks, lookup_bytes,
                                        grown))
                   : grown \in {BCat(all_inodes, BCat(r.w.buf, BFill(0, r.w.room)))}}))
            : r \in {read_block(d, SliceWriter(expected), SeekTo(d, index[i]),
                             <<expected>>)}})

\* Image::export_table; touched says whether the source was read or sought
Image_export_table(d, image) ==
    LET lookup_table_start == sb_export_table_start(image.superblock)
        inodes == WInt(sb_inodes(image.superblock))
        lookup_bytes == inodes * INODE_ENTRY_SIZE
        lookup_blocks == (lookup_bytes + METADATA_SIZE - 1) \div METADATA_SIZE
        compressor == Image_compressor(d, image.superblock)
        Touched(r) == [st |-> r.st, val |-> r.val, why |-> r.why, touched |-> TRUE]
    IN  IF lookup_table_start = INVALID_BLK
        THEN [st |-> "Ok", val |-> <<>>, why |-> "ok", touched |-> FALSE]
        ELSE IF compressor.st # "Ok" THEN Touched(compressor)
        ELSE Eval({(IF index.st # "Ok" THEN Touched(index)
          ELSE IF Len(index.val) # lookup_blocks THEN Touched(Panic("index.len"))
          ELSE Eval({(IF all_inodes.st # "Ok" THEN Touched(all_inodes)
            ELSE IF BLen(all_inodes.val) % 8 # 0 THEN Touched(Err("bad lookup id"))
            ELSE Eval({(Touched(Ok([k \in 1..Len(chunks) |-> Field(chunks[k], 0, 8)])))
                : chunks \in {BChunks(all_inodes.val, 8)}}))
              : all_inodes \in {ExportTableBlocks(d, index.val, 1, lookup_blocks, lookup_bytes,
                                      <<>>)}}))
            : index \in {ReadIndex(d, lookup_table_start, lookup_blocks * 8)}})

-----------------------------------------------------------------------------
(* Fragment table (src/src/read.rs, FragmentTableReader; src/src/image.rs, *)
(* Image::fragments; src/src/fragments.rs).                                *)

\* FragmentEntry accessors
fe_start_block(e) == Field(e, 0, 8)
fe_size(e) == Field(e, 8, 4)

\* FragmentTableReader::new
FragmentTableReader_new(d, sb) ==
    LET fragments == WInt(sb_fragments(sb))
        indexes == (fragments * FRAGMENT_ENTRY_SIZE + METADATA_SIZE - 1) \div METADATA_SIZE
    IN  Eval({(IF index.st # "Ok" THEN index
          ELSE Ok([position |-> 0, index |-> index.val, fragments |-> fragments,
                   buffer_position |-> 0, buffer |-> <<>>]))
        : index \in {ReadIndex(d, sb_fragment_table_start(sb), indexes * 8)}})

FtrResult(st, why, data, ftr) == [st |-> st, why |-> why, data |-> data, ftr |-> ftr]

\* the second half of FragmentTableReader::read: `data` is already in the
\* writer; the next block, if any, is fetched onto the end of the buffer
FragmentTableReader_fetch(d, ftr, writer_len, data) ==
    LET expected == IF ftr.position + 1 # Len(ftr.index) THEN METADATA_SIZE
                    ELSE (ftr.fragments * FRAGMENT_ENTRY_SIZE) % METADATA_SIZE
    IN  IF ftr.position = Len(ftr.index) THEN FtrResult("Ok", "ok", data, ftr)
        ELSE Eval({(IF r.st # "Ok" THEN FtrResult(r.st, r.why, data, ftr)
          ELSE Eval({(FtrResult("Ok", "ok", BCat(data, BTake(r.w.buf, left_to_write)),
                           [ftr EXCEPT !.position = ftr.position + 1,
                                       !.buffer = r.w.buf,
                                       !.buffer_position =
                                           ftr.buffer_position + left_to_write]))
              : left_to_write \in {Min(BLen(r.w.buf), writer_len - BLen(data))}}))
            : r \in {read_block(d, VecWriter(ftr.buffer),
                             SeekTo(d, ftr.index[ftr.position + 1]), <<expected>>)}})

\* impl Read for FragmentTableReader: read into a writer of writer_len bytes
FragmentTableReader_read(d, ftr, writer_len) ==
    LET buffer_remainder == BLen(ftr.buffer) - ftr.buffer_position
    IN  IF ftr.buffer_position < BLen(ftr.buffer)
        THEN IF writer_len < buffer_remainder
             THEN FtrResult("Ok", "ok", BSub(ftr.buffer, ftr.buffer_position, writer_len),
                            [ftr EXCEPT !.buffer_position = ftr.buffer_position + writer_len])
             ELSE FragmentTableReader_fetch(d,
                      [ftr EXCEPT !.buffer = <<>>, !.buffer_position = 0],
                      writer_len, BDrop(ftr.buffer, ftr.buffer_position))
        ELSE FragmentTableReader_fetch(d, ftr, writer_len, <<>>)

\* Read::read_exact on the reader: read until `need` more bytes are in, a
\* read of nothing being UnexpectedEof
RECURSIVE Ftr_read_exact(_, _, _, _)
Ftr_read_exact(d, ftr, need, got) ==
    IF need = 0 THEN FtrResult("Ok", "ok", got, ftr)
    ELSE Eval({(IF r.st # "Ok" THEN FtrResult(r.st, r.why, got, r.ftr)
           ELSE IF BLen(r.data) = 0 THEN FtrResult("Err", "UnexpectedEof", got, r.ftr)
           ELSE Eval({(Ftr_read_exact(d, r.ftr, n[1], n[2]))
               : n \in {<<need - BLen(r.data), BCat(got, r.data)>>}}))
        : r \in {FragmentTableReader_read(d, ftr, need)}})

\* rounds lo..hi of the loop of Image::fragments, from state s = [st, why,
\* ftr, list]; the rounds are halved so that the evaluation stays shallow
RECURSIVE FragmentsLoop(_, _, _, _)
FragmentsLoop(d, s, lo, hi) ==
    LET mid == (lo + hi) \div 2
    IN  IF s.st # "Ok" \/ lo > hi THEN s
        ELSE IF lo = hi
        THEN Eval({([st |-> e.st, why |-> e.why, ftr |-> e.ftr,
                list |-> IF e.st = "Ok" THEN Append(s.list, e.data) ELSE s.list])
            : e \in {Ftr_read_exact(d, s.ftr, FRAGMENT_ENTRY_SIZE, <<>>)}})
        ELSE Eval({(FragmentsLoop(d, half, mid + 1, hi)) : half \in {FragmentsLoop(d, s, lo, mid)}})

\* Image::fragments; blocks is the number of metadata blocks fetched
Image_fragments(d, image) ==
    LET compressor == Image_compressor(d, image.superblock)
        Fetched(r, n) == [st |-> r.st, val |-> r.val, why |-> r.why, blocks |-> n]
    IN  IF compressor.st # "Ok" THEN Fetched(compressor, 0)
        ELSE Eval({(IF ftr.st # "Ok" THEN Fetched(ftr, 0)
          ELSE Eval({(IF done.st = "Ok" THEN Fetched(Ok(done.list), done.ftr.position)
            ELSE Fetched([st |-> done.st, val |-> <<>>, why |-> done.why],
                         done.ftr.position))
              : done \in {FragmentsLoop(d, [st |-> "Ok", why |-> "ok", ftr |-> ftr.val,
                                      list |-> <<>>],
                                  1, ftr.val.fragments)}}))
            : ftr \in {FragmentTableReader_new(d, image.superblock)}})

-----------------------------------------------------------------------------
(* Specification SpecRB: one read_block call on a source holding one       *)
(* framed block, whole or cut short, with every kind of writer.            *)

\* the k-th opaque content (payload bytes whose values do not matter)
Opaque(k) == 256 + k

\* u16 header of a block: bit 15 set means stored uncompressed
BlockHeader(raw, size) == BLit(ToLeBytes(<<size + (IF raw THEN COMPRESSED_BIT ELSE 0)>>))

\* a framed block whose payload is n bytes of content c, cut after `present`
Block(raw, size, c, present) ==
    BCat(BlockHeader(raw, size), IF present <= 0 THEN <<>> ELSE <<<<c, 0, present>>>>)

\* a decompressor that knows content c as a stream of len bytes giving out
Codec1(c, len, out) == [s \in {c} |-> [len |-> len, out |-> out]]

\* a deflate or LZMA stream has a few bytes of framing and cannot expand
\* without bound: only such streams are put into codec
StreamFits(len, outlen) == len >= 8 + outlen \div 1024

MaxLead == 3            \* bytes in front of the block
RbSizes == {0, 1, 40, METADATA_SIZE, METADATA_SIZE + 1}    \* stored sizes
RbOutLens == {0, 4, METADATA_SIZE, METADATA_SIZE + 1}      \* decompressed sizes
RbExpected == {<<>>, <<4>>, <<METADATA_SIZE>>}
RbWriters == {VecWriter(<<>>), VecWriter(BFill(0, 4)), SliceWriter(4),
              SliceWriter(METADATA_SIZE)}

InitRB ==
    /\ \E lead \in {0, MaxLead}, raw \in BOOLEAN, size \in RbSizes,
          missing \in 0..2, known \in BOOLEAN, outlen \in RbOutLens :
          LET blk == Block(raw, size, Opaque(1), size)
              whole == BCat(BFill(0, lead), blk)
          IN  /\ disk = BTake(whole, BLen(whole) - (IF missing = 2 THEN size + 1
                                                    ELSE Min(missing, size)))
              /\ codec = IF known /\ ~raw /\ StreamFits(size, outlen)
                         THEN Codec1(Opaque(1), size, BFill(Opaque(2), outlen))
                         ELSE <<>>
    /\ pos = 0
    /\ env = [op |-> "none"]
    /\ pc = "ready"
    /\ ret = Err("not run")
    /\ fetched = <<>>

DoReadBlock ==
    /\ pc = "ready"
    /\ \E start \in {0, MaxLead}, expected \in RbExpected, w \in RbWriters :
          /\ BKnown(BSub(disk, start, 2))
          /\ env' = [op |-> "read_block", start |-> start, expected |-> expected,
                     writer |-> w]
          /\ ret' = read_block(disk, w, start, expected)
          /\ pos' = read_block(disk, w, start, expected).pos
    /\ pc' = "done"
    /\ UNCHANGED <<disk, codec, fetched>>

NextRB == DoReadBlock

SpecRB == InitRB /\ [][NextRB]_vars

\* the framing found at the start of the call
RbHeader == Field16(disk, env.start)
RbStored == RbHeader % COMPRESSED_BIT
RbRaw == RbHeader >= COMPRESSED_BIT
RbFramed ==
    /\ pc = "done" /\ env.op = "read_block"
    /\ env.start + 2 <= BLen(disk)
    /\ RbStored <= METADATA_SIZE
    /\ env.start + 2 + RbStored <= BLen(disk)
RbPayload == BSub(disk, env.start + 2, RbStored)
\* what the call appended to its writer
RbAppended == BDrop(ret.w.buf, BLen(env.writer.buf))

\* the call has all it needs to succeed: a payload the decompressor accepts
\* (or a stored one), room in the writer, and the expected size if one is given
RbValid ==
    IF RbRaw THEN WriteAll(env.writer, RbPayload).st = "Ok"
    ELSE /\ decompress(RbPayload).st = "Ok"
         /\ WriteAll(env.writer, decompress(RbPayload).val).st = "Ok"
         /\ env.expected # <<>> => env.expected[1] = BLen(decompress(RbPayload).val)

\* C9: for a block framed at start whose header and payload are present,
\* read_block consumes exactly the source bytes [start, start + stored_size + 2),
\* succeeds when the payload is usable, and then returns stored_size + 2
\* having put into dst the payload itself (top bit set) or what the
\* decompressor makes of it (top bit clear).
C9_ReadBlockFraming ==
    RbFramed =>
        /\ ret.pos = env.start + RbStored + 2
        /\ RbValid => ret.st = "Ok"
        /\ ret.st = "Ok" =>
              /\ ret.val = RbStored + 2
              /\ RbAppended = IF RbRaw THEN RbPayload ELSE decompress(RbPayload).val

\* a compressed block of forty stored bytes behind other bytes was read
C9_Witness ==
    /\ RbFramed /\ ret.st = "Ok"
    /\ ~RbRaw /\ RbStored = 40 /\ env.start > 0
    /\ BLen(RbAppended) = METADATA_SIZE

\* C10: no read_block call appends more than METADATA_SIZE bytes to its
\* destination.
C10_AppendAtMost8192 ==
    (pc = "done" /\ env.op = "read_block") => BLen(RbAppended) <= METADATA_SIZE

\* C11: a read_block call given expected = Some(n) that puts a number of
\* bytes other than n into its destination ends with an error value, for
\* compressed and for stored blocks.
C11_ExpectedMismatchIsError ==
    (/\ pc = "done" /\ env.op = "read_block"
     /\ env.expected # <<>>
     /\ BLen(RbAppended) # env.expected[1]) => ret.st = "Err"

\* C12: a header whose low 15 bits exceed METADATA_SIZE makes read_block
\* return an error value, with nothing written to its destination.
C12_OversizeHeaderIsError ==
    (/\ pc = "done" /\ env.op = "read_block"
     /\ env.start + 2 <= BLen(disk)
     /\ RbStored > METADATA_SIZE) => ret.st = "Err" /\ RbAppended = <<>>

-----------------------------------------------------------------------------
(* Specification SpecInode: one read_inode_header call on a record of      *)
(* every tag, with the trailers whole or cut short.                        *)

\* rec with the bytes b written at offset off
SetBytes(rec, off, b) == BCat(BCat(BTake(rec, off), b), BDrop(rec, off + BLen(b)))
LeBytes(a) == BLit(ToLeBytes(a))

\* fixed records as mksquashfs lays them out (all other fields zero)
PlainRecord(tag, size) == SetBytes(BFill(0, size), 0, LeBytes(<<tag>>))
RegularRecord(fragment, file_size) ==
    SetBytes(SetBytes(PlainRecord(2, REGULAR_INODE_HEADER_SIZE), 20, LeBytes(fragment)),
             28, LeBytes(file_size))
LRegularRecord(fragment, file_size) ==
    SetBytes(SetBytes(PlainRecord(9, LREGULAR_INODE_HEADER_SIZE), 24, LeBytes(file_size)),
             44, LeBytes(fragment))
SymlinkRecord(tag, symlink_size) ==
    SetBytes(PlainRecord(tag, SYMLINK_INODE_HEADER_SIZE), 20, LeBytes(symlink_size))
LDirectoryRecord(i_count) ==
    SetBytes(PlainRecord(8, LDIRECTORY_INODE_HEADER_SIZE), 32, LeBytes(<<i_count>>))
DirectoryIndexRecord(size) ==
    SetBytes(BFill(0, DIRECTORY_INDEX_SIZE), 8, LeBytes(size))

\* superblocks that Superblock::new accepts
InSuperblocks ==
    {h \in {SbBytes([SbDefault EXCEPT !.block_size = WNat(g[1], 2), !.block_log = g[2],
                                      !.fragments = WNat(g[3], 2)]) :
               g \in {<<4096, 12, 2>>, <<131072, 17, 0>>, <<5, 2, 2>>}} :
        Superblock_new(h, 0).st = "Ok"}

MaxRest == 9            \* bytes after the fixed record
InTags == 0..15 \cup {255, 65535}
InFragments == {INVALID_FRAG, WNat(0, 2), WNat(2, 2), WNat(3, 2)}
InFileSizes == {WNat(0, 2), WNat(1, 2), WNat(4096, 2), WNat(4097, 2), WNat(8192, 2),
                <<65535, 65535>>}
InLFileSizes == {WNat(0, 4), WNat(4097, 4), WNat(8192, 4), <<0, 0, 1, 0>>,
                 <<0, 0, 0, 16384>>, <<65535, 65535, 65535, 65535>>}
InSymlinkSizes == {WNat(0, 2), WNat(3, 2), <<65535, 65535>>}
InIndexSizes == {WNat(0, 2), WNat(2, 2), WNat(3, 2), <<65535, 65535>>}
InSecondIndexSizes == {WNat(0, 2), WNat(7, 2)}

Rests == {BFill(7, n) : n \in 0..MaxRest}

InodeInputs ==
    {BTake(PlainRecord(tag, IF tag \in 1..14 THEN 56 ELSE 2), cut) :
        tag \in InTags, cut \in {1, 2, 19, 20, 23, 24, 27, 28, 31, 32, 39, 40, 55, 56}}
    \cup {BCat(RegularRecord(f, z), r) : f \in InFragments, z \in InFileSizes, r \in Rests}
    \cup {BCat(LRegularRecord(f, z), r) : f \in InFragments, z \in InLFileSizes, r \in Rests}
    \cup {BCat(SymlinkRecord(tag, z), r) : tag \in {3, 10}, z \in InSymlinkSizes, r \in Rests}
    \cup {BCat(BCat(LDirectoryRecord(n), DirectoryIndexRecord(z)),
               BCat(BCat(BFill(7, IF WSmall(z) THEN WInt(z) + 1 ELSE 0),
                         DirectoryIndexRecord(z2)), r)) :
            n \in 0..3, z \in InIndexSizes, z2 \in InSecondIndexSizes, r \in Rests}

InitInode ==
    /\ disk \in InodeInputs
    /\ codec = <<>>
    /\ pos = 0
    /\ env = [op |-> "none"]
    /\ pc = "ready"
    /\ ret = Err("not run")
    /\ fetched = <<>>

DoReadInodeHeader ==
    /\ pc = "ready"
    /\ \E sb \in InSuperblocks, build \in Builds :
          /\ env' = [op |-> "read_inode_header", superblock |-> sb, build |-> build]
          /\ ret' = read_inode_header(disk, pos, sb, build)
          /\ pos' = read_inode_header(disk, pos, sb, build).pos
    /\ pc' = "done"
    /\ UNCHANGED <<disk, codec, fetched>>

NextInode == DoReadInodeHeader

SpecInode == InitInode /\ [][NextInode]_vars

\* the record the call was given
InTag == Field16(disk, 0)
InIsFile == BLen(disk) >= 2 /\ InTag \in {2, 9}
InFixed == IF InTag = 2 THEN REGULAR_INODE_HEADER_SIZE ELSE LREGULAR_INODE_HEADER_SIZE
InFragment == IF InTag = 2 THEN Field(disk, 20, 4) ELSE Field(disk, 44, 4)
InFileSize == IF InTag = 2 THEN WExt(Field(disk, 28, 4), 4) ELSE Field(disk, 24, 8)

\* where the index of an LDirectory record ends when `left` more records of
\* 12 + size + 1 bytes follow offset p; an end the source does not hold is
\* reported as one byte past the source
RECURSIVE InIndexEnd(_, _)
InIndexEnd(p, left) ==
    IF left = 0 THEN p
    ELSE IF p + DIRECTORY_INDEX_SIZE > BLen(disk) THEN BLen(disk) + 1
    ELSE LET size == Field(disk, p + 8, 4)
         IN  IF ~WSmall(size) \/ p + DIRECTORY_INDEX_SIZE + WInt(size) + 1 > BLen(disk)
             THEN BLen(disk) + 1
             ELSE InIndexEnd(p + DIRECTORY_INDEX_SIZE + WInt(size) + 1, left - 1)

InIsLDirectory == BLen(disk) >= LDIRECTORY_INODE_HEADER_SIZE /\ InTag = 8

\* C21: an LDirectory inode with i_count = n and name sizes s_1..s_n decodes
\* to exactly n index records and consumes exactly 40 + the sum of
\* (12 + s_k + 1) bytes, for every u32 value of s_k.
C21_LDirectoryIndexBytes ==
    (pc = "done" /\ env.op = "read_inode_header" /\ InIsLDirectory /\ ret.st = "Ok") =>
        /\ Len(ret.val.index) = Field16(disk, 32)
        /\ ret.pos = InIndexEnd(LDIRECTORY_INODE_HEADER_SIZE, Field16(disk, 32))

InIsSymlink == BLen(disk) >= SYMLINK_INODE_HEADER_SIZE /\ InTag \in {3, 10}
InSymlinkSize == Field(disk, 20, 4)

\* C22: every Symlink or LSymlink inode that decodes successfully stores
\* exactly symlink_size bytes of link text and the decoder has consumed
\* 24 + symlink_size bytes, plus 4 for LSymlink, whose trailing u32 is
\* stored as the xattr id; a plain Symlink stores no xattr id.
C22_SymlinkTextLength ==
    (pc = "done" /\ env.op = "read_inode_header" /\ InIsSymlink /\ ret.st = "Ok") =>
        /\ WSmall(InSymlinkSize)
        /\ BLen(ret.val.text) = WInt(InSymlinkSize)
        /\ ret.val.text = BSub(disk, SYMLINK_INODE_HEADER_SIZE, WInt(InSymlinkSize))
        /\ ret.pos = SYMLINK_INODE_HEADER_SIZE + WInt(InSymlinkSize)
                        + (IF InTag = 10 THEN 4 ELSE 0)
        /\ ret.val.xattr =
              IF InTag = 10
              THEN <<Field(disk, SYMLINK_INODE_HEADER_SIZE + WInt(InSymlinkSize), 4)>>
              ELSE <<>>

\* quotient and remainder of a wide number by a divisor below 2^15, limb by
\* limb from the top: <<quotient limbs (top first), remainder>>
RECURSIVE WDivFrom(_, _, _, _)
WDivFrom(a, m, i, rem) ==
    IF i = 0 THEN <<<<>>, rem>>
    ELSE LET cur == rem * Base + a[i]
             rest == WDivFrom(a, m, i - 1, cur % m)
         IN  <<<<cur \div m>> \o rest[1], rest[2]>>
Reverse(q) == [i \in 1..Len(q) |-> q[Len(q) + 1 - i]]

\* ceil(a / m) for a 64-bit a and a 32-bit m, as the mathematical value
WCeilDiv(a, m, log) ==
    LET lowbits == \/ a[1] % Pow2(Min(log, 16)) # 0
                   \/ log > 16 /\ a[2] % Pow2(log - 16) # 0
        d == WDivFrom(a, WInt(m), 4, 0)
    IN  IF m = Shl1(log)
        THEN IF lowbits THEN WAdd(WShr(a, log), WOne(4)) ELSE WShr(a, log)
        ELSE IF d[2] # 0 THEN WAdd(Reverse(d[1]), WOne(4)) ELSE Reverse(d[1])

\* the number of block-list entries the format prescribes
InBlocks ==
    IF InFragment = INVALID_FRAG
    THEN WCeilDiv(InFileSize, sb_block_size(env.superblock), sb_block_log(env.superblock))
    ELSE WShr(InFileSize, sb_block_log(env.superblock))

\* C7: every File and LFile inode that decodes successfully carries exactly
\* ceil(file_size / block_size) block-list entries when it has no fragment
\* and file_size >> block_log otherwise, and the decoder has consumed exactly
\* four bytes per entry after the fixed record, for every remaining input.
C7_BlockListLength ==
    (pc = "done" /\ env.op = "read_inode_header" /\ InIsFile /\ ret.st = "Ok") =>
        /\ WSmall(InBlocks)
        /\ Len(ret.val.blocks) = WInt(InBlocks)
        /\ ret.pos = InFixed + 4 * WInt(InBlocks)

\* C8: read_inode_header dispatches on the leading u16: a complete fixed
\* record with a tag in 1..14 decodes to the matching variant and consumes
\* the variant's fixed size before any trailer; every other tag gives an
\* UnknownInodeType error value.
InVariantOf(tag) ==
    CASE tag = 1 -> <<"Directory", 32>> [] tag = 2 -> <<"Regular", 32>>
      [] tag = 3 -> <<"Symlink", 24>> [] tag \in {4, 5} -> <<"Dev", 24>>
      [] tag \in {6, 7} -> <<"IPC", 20>> [] tag = 8 -> <<"LDirectory", 40>>
      [] tag = 9 -> <<"LRegular", 56>> [] tag = 10 -> <<"LSymlink", 24>>
      [] tag \in {11, 12} -> <<"LDev", 28>> [] tag \in {13, 14} -> <<"LIPC", 24>>

C8_TagDispatch ==
    (pc = "done" /\ env.op = "read_inode_header" /\ BLen(disk) >= 2) =>
        IF InTag \in 1..14
        THEN /\ ret.st # "Panic"
             /\ ret.st = "Ok" =>
                  /\ ret.val.variant = InVariantOf(InTag)[1]
                  /\ ret.val.hdr = BTake(disk, InVariantOf(InTag)[2])
                  /\ ret.pos >= InVariantOf(InTag)[2]
             /\ (InTag \in {1, 4, 5, 6, 7, 11, 12, 13, 14}
                    /\ BLen(disk) >= InVariantOf(InTag)[2]) =>
                  ret.st = "Ok" /\ ret.pos = InVariantOf(InTag)[2]
        ELSE ret.st = "Err"

\* C14: a File or LFile record, its fixed part present, whose fragment field
\* is not 0xFFFFFFFF and exceeds the superblock's fragments count decodes to
\* an error value.
C14_CorruptedFragmentIndex ==
    (/\ pc = "done" /\ env.op = "read_inode_header"
     /\ InIsFile /\ BLen(disk) >= InFixed
     /\ InFragment # INVALID_FRAG
     /\ WLt(sb_fragments(env.superblock), InFragment)) => ret.st = "Err"

-----------------------------------------------------------------------------
(* Specification SpecScan: Image::new, then Image::inodes, on archives     *)
(* whose inode table is one or two metadata blocks, stored or compressed,  *)
(* with root references that do and do not name a block and an inode.      *)

\* stored size chosen for a stream that decompresses to outlen bytes
StoredLen(outlen) == 40 + outlen \div 1024

RECURSIVE SplitSum(_, _)
SplitSum(split, k) == IF k = 0 THEN 0 ELSE split[k] + SplitSum(split, k - 1)

\* the k-th piece of a logical table cut into pieces of the lengths in split
Piece(table, split, k) == BSub(table, SplitSum(split, k - 1), split[k])

\* one metadata block holding piece k: stored, or compressed as content k
TableBlock(table, split, k, comp) ==
    IF comp THEN Block(FALSE, StoredLen(split[k]), Opaque(10 + k), StoredLen(split[k]))
    ELSE BCat(BlockHeader(TRUE, split[k]), Piece(table, split, k))

RECURSIVE TableBlocks(_, _, _, _)
TableBlocks(table, split, k, comp) ==
    IF k = 0 THEN <<>>
    ELSE BCat(TableBlocks(table, split, k - 1, comp), TableBlock(table, split, k, comp))

TableCodec(table, split, comp) ==
    IF comp
    THEN [c \in {Opaque(10 + k) : k \in 1..Len(split)} |->
            [len |-> StoredLen(split[c - Opaque(10)]),
             out |-> Piece(table, split, c - Opaque(10))]]
    ELSE <<>>

\* logical inode tables
Dir == PlainRecord(1, DIRECTORY_INODE_HEADER_SIZE)
TableSmall == BCat(BCat(Dir, PlainRecord(6, IPC_INODE_HEADER_SIZE)), Dir)
TableTwo ==
    BCat(BCat(BCat(SymlinkRecord(3, WNat(8136, 2)), BFill(7, 8136)), Dir),
         BCat(PlainRecord(4, DEV_INODE_HEADER_SIZE), Dir))
TableText ==
    BCat(BCat(SymlinkRecord(3, WNat(40, 2)), BCat(Dir, BFill(7, 8))), Dir)
TableLong == BCat(SymlinkRecord(3, WNat(8169, 2)), BFill(7, 8169))
\* a table of exactly one full metadata block
TableFull == BCat(Dir, BCat(SymlinkRecord(3, WNat(8136, 2)), BFill(7, 8136)))

ScTables == {<<<<>>, <<>>>>, <<TableSmall, <<84>>>>, <<TableSmall, <<52, 32>>>>,
             <<TableTwo, <<METADATA_SIZE, 56>>>>, <<TableText, <<96>>>>,
             <<TableLong, <<METADATA_SIZE + 1>>>>, <<TableFull, <<METADATA_SIZE>>>>}

MaxCut == 1             \* bytes missing from the end of the archive
ScOffsets == {0, 24, 32, 52, 8160}
ScEndDeltas == {0 - 1, 0, 1}

\* root_inode for block offset rel (+ 2^32 when high = 1) and byte offset
RootRef(rel, high, offset) == <<offset, rel % Base, rel \div Base, high>>

ScArchive(t, comp, rel, high, offset, delta, cut) ==
    LET blocks == TableBlocks(t[1], t[2], Len(t[2]), comp)
        sb == SbBytes([SbDefault EXCEPT
                  !.inodes = WNat(4, 2),
                  !.root_inode = RootRef(rel, high, offset),
                  !.inode_table_start = WNat(SUPERBLOCK_SIZE, 4),
                  !.directory_table_start =
                       WNat(SUPERBLOCK_SIZE + BLen(blocks) + delta, 4)])
        whole == BCat(sb, blocks)
    IN  BTake(whole, BLen(whole) - cut)

InitScan ==
    /\ \E t \in ScTables, comp \in BOOLEAN, second \in BOOLEAN, high \in 0..1,
          offset \in ScOffsets, delta \in ScEndDeltas, cut \in 0..MaxCut :
          /\ disk = ScArchive(t, comp,
                              IF second /\ Len(t[2]) > 0
                              THEN BLen(TableBlock(t[1], t[2], 1, comp)) ELSE 0,
                              high, offset, delta, cut)
          /\ codec = TableCodec(t[1], t[2], comp)
    /\ pos = 0
    /\ env = [op |-> "none"]
    /\ pc = "ready"
    /\ ret = Err("not run")
    /\ fetched = <<>>

\* Image::new on the archive
ScanOpen ==
    /\ pc = "ready"
    /\ env' = [op |-> "Image::new"]
    /\ ret' = Image_new(disk, pos)
    /\ pos' = ReadExact(disk, pos, SUPERBLOCK_SIZE).pos
    /\ pc' = IF Image_new(disk, pos).st = "Ok" THEN "open" ELSE "done"
    /\ UNCHANGED <<disk, codec, fetched>>

\* Image::inodes on the opened image
ScanInodes ==
    /\ pc = "open"
    /\ \E build \in Builds :
          /\ env' = [op |-> "Image::inodes", image |-> ret.val, build |-> build]
          /\ ret' = Image_inodes(disk, ret.val, build)
          /\ fetched' = Image_inodes(disk, ret.val, build).blocks
    /\ pc' = "done"
    /\ UNCHANGED <<disk, codec, pos>>

NextScan == ScanOpen \/ ScanInodes

SpecScan == InitScan /\ [][NextScan]_vars

\* a successful scan and what it worked on
ScOk == pc = "done" /\ env.op = "Image::inodes" /\ ret.st = "Ok"
ScSb == env.image.superblock
ScDecode(p) == read_inode_header(ret.inode_table, p, ScSb, env.build)
\* the root reference: byte offset (low 16 bits) and block offset (the rest)
ScRootOffset == sb_root_inode(ScSb)[1]
ScRootBlock == WAdd(sb_inode_table_start(ScSb), WShr(sb_root_inode(ScSb), 16))

\* C5: on every successful scan the root inode is the inode decoded at
\* logical position P + (root_inode & 0xFFFF), P being the decompressed bytes
\* in front of the metadata block at inode_table_start + (root_inode >> 16).
C5_RootLocation ==
    ScOk => \E i \in 1..Len(fetched) :
               /\ fetched[i].start = ScRootBlock
               /\ ret.val.root = ScDecode(fetched[i].at + ScRootOffset).val

\* the list is in on-disk order: from offset 0, each element where the one
\* before it ended, to the end of the logical table
ScInOrder ==
    /\ Len(ret.offsets) = Len(ret.val.inode_headers)
    /\ Len(ret.offsets) > 0 /\ ret.offsets[1] = 0
    /\ \A k \in 1..Len(ret.offsets) :
          /\ ScDecode(ret.offsets[k]).st = "Ok"
          /\ ret.val.inode_headers[k] = ScDecode(ret.offsets[k]).val
          /\ ScDecode(ret.offsets[k]).pos =
                IF k < Len(ret.offsets) THEN ret.offsets[k + 1] ELSE BLen(ret.inode_table)
ScRootAt == ret.root_inode_block + ScRootOffset

\* C6 as stated: the list is in on-disk order and the root is the element of
\* the list that starts at root_block_index + root_block_offset.
C6_RootInList ==
    ScOk => /\ ScInOrder
            /\ \E k \in 1..Len(ret.offsets) :
                  ret.offsets[k] = ScRootAt /\ ret.val.inode_headers[k] = ret.val.root

\* C6: the list is in on-disk order, and when root_block_index +
\* root_block_offset is where an element of the list starts, the root is
\* that element.
C6_RootInListAtBoundary ==
    ScOk => /\ ScInOrder
            /\ \A k \in 1..Len(ret.offsets) :
                  ret.offsets[k] = ScRootAt => ret.val.inode_headers[k] = ret.val.root

\* a two-block table scanned, the root being a later element of the list
C6_Witness ==
    /\ ScOk /\ Len(fetched) = 2 /\ ScRootOffset > 0
    /\ \E k \in 3..Len(ret.offsets) : ret.offsets[k] = ScRootAt

\* an Image::inodes call that ended, and whether one of the blocks its loop
\* visited starts at inode_table_start + (root_inode >> 16)
ScDone == pc = "done" /\ env.op = "Image::inodes"
ScRootVisited == \E i \in 1..Len(fetched) : fetched[i].start = ScRootBlock

\* C27: the scanner computes root_block_start = inode_table_start +
\* (root_inode >> 16) from all 48 high bits of the reference and
\* root_block_offset = root_inode & 0xFFFF, for every root_inode.
C27_RootReferenceSplit ==
    ScDone =>
        /\ root_inode_start_of(ScSb) = ScRootBlock
        /\ root_inode_offset_of(ScSb) = sb_root_inode(ScSb)[1] % Base

\* C15: when no metadata block visited by the scan starts at
\* inode_table_start + (root_inode >> 16), Image::inodes returns an error
\* value.
C15_RootNotLocated == (ScDone /\ ~ScRootVisited) => ret.st = "Err"

\* the cursor after the i-th visited block, and the bytes of the decoded
\* table after the first k visits
ScCursorAfter(i) ==
    WAdd(fetched[i].start,
         WNat(read_block(disk, VecWriter(<<>>), SeekTo(disk, fetched[i].start), <<>>).val, 4))
RECURSIVE ScTableLen(_)
ScTableLen(k) == IF k = 0 THEN 0 ELSE ScTableLen(k - 1) + fetched[k].len
\* the i-th visit read a block that is not the final one and not 8192 bytes
ScShortBlock(i) ==
    /\ fetched[i].read = "Ok"
    /\ ScCursorAfter(i) # sb_directory_table_start(ScSb)
    /\ fetched[i].len # METADATA_SIZE
\* the loop ran to its end and the root block, found at visit i, leaves
\* fewer than 32 bytes at root_block_index + root_block_offset
ScRootCut(i) ==
    /\ \A j \in 1..Len(fetched) : fetched[j].read = "Ok" /\ ~ScShortBlock(j)
    /\ fetched[i].start = WAdd(sb_inode_table_start(ScSb),
                               WExt(WTrunc(WShr(sb_root_inode(ScSb), 16), 2), 4))
    /\ ScTableLen(Len(fetched)) - fetched[i].at
          < ScRootOffset + DIRECTORY_INODE_HEADER_SIZE

\* C16: Image::inodes returns an error value when a block that is not the
\* final one yields a length other than 8192 bytes, and when fewer than 32
\* bytes of the decoded table remain at the root position.
C16_TruncatedInodeTable ==
    (ScDone /\ \E i \in 1..Len(fetched) : ScShortBlock(i) \/ ScRootCut(i)) =>
        ret.st = "Err"

\* every block read of the scan starts before directory_table_start
ScStartsInside ==
    \A i \in 1..Len(fetched) : WSLt(fetched[i].start, sb_directory_table_start(ScSb))
\* the cursor when the loop exits: behind the last frame consumed
ScExitCursor ==
    IF Len(fetched) = 0 THEN sb_inode_table_start(ScSb) ELSE ScCursorAfter(Len(fetched))

\* C28: the scan never starts a block read at or beyond
\* directory_table_start, and whenever it succeeds the cursor equals
\* directory_table_start when the loop exits: the frames consumed tile
\* [inode_table_start, directory_table_start) with no overshoot.
C28_ScanTilesInodeTable ==
    ScDone =>
        /\ ScStartsInside
        /\ ret.st = "Ok" => ScExitCursor = sb_directory_table_start(ScSb)

-----------------------------------------------------------------------------
(* Specification SpecTbl: Image::new, then one of Image::id_table,         *)
(* Image::fragments and Image::export_table, on archives whose three       *)
(* tables share one outer index and its metadata blocks.                   *)

\* n bytes of table content for block k: sixteen distinct bytes, then a fill
\* (all zero when base = 0)
TbContent(k, n, base) ==
    IF base = 0 THEN BFill(0, n)
    ELSE BCat(BLit([j \in 1..Min(n, 16) |-> base * k + j]), BFill(100 + k, n - 16))

\* the logical table: the blocks' contents one after the other
RECURSIVE TbTable(_, _, _)
TbTable(split, k, base) ==
    IF k = 0 THEN <<>> ELSE BCat(TbTable(split, k - 1, base), TbContent(k, split[k], base))

\* file offset of block k when the blocks follow the superblock
RECURSIVE TbBlockAt(_, _, _, _)
TbBlockAt(split, k, comp, base) ==
    IF k = 1 THEN SUPERBLOCK_SIZE
    ELSE TbBlockAt(split, k - 1, comp, base)
         + BLen(TableBlock(TbTable(split, Len(split), base), split, k - 1, comp))

TbIndex(split, comp, base) ==
    LET ptr(k) == LeBytes(WNat(TbBlockAt(split, k, comp, base), 4))
    IN  IF Len(split) = 0 THEN <<>>
        ELSE IF Len(split) = 1 THEN ptr(1)
        ELSE BCat(ptr(1), ptr(2))

MaxIndexCut == 4        \* bytes missing from the end of the outer index
TbUnits == {0, 4, 16, 32, METADATA_SIZE, METADATA_SIZE + 16}
TbSplits == {<<>>, <<0>>, <<4>>, <<8>>, <<16>>, <<32>>, <<METADATA_SIZE>>,
             <<METADATA_SIZE, 16>>, <<16, METADATA_SIZE>>, <<METADATA_SIZE, 0>>}
TbBases == {0, 10}

TbArchive(units, split, comp, base, export, cut) ==
    LET table == TbTable(split, Len(split), base)
        blocks == TableBlocks(table, split, Len(split), comp)
        at == WNat(SUPERBLOCK_SIZE + BLen(blocks), 4)
        sb == SbBytes([SbDefault EXCEPT
                  !.inodes = WNat(units \div INODE_ENTRY_SIZE, 2),
                  !.fragments = WNat(units \div FRAGMENT_ENTRY_SIZE, 2),
                  !.no_ids = units \div 4,
                  !.id_table_start = at,
                  !.fragment_table_start = at,
                  !.export_table_start = IF export THEN at ELSE INVALID_BLK])
        whole == BCat(BCat(sb, blocks), TbIndex(split, comp, base))
    IN  BTake(whole, BLen(whole) - cut)

InitTbl ==
    /\ \E units \in TbUnits, split \in TbSplits, comp \in BOOLEAN, base \in TbBases,
          export \in BOOLEAN, cut \in {0, MaxIndexCut} :
          /\ disk = TbArchive(units, split, comp, base, export, cut)
          /\ codec = TableCodec(TbTable(split, Len(split), base), split, comp)
    /\ pos = 0
    /\ env = [op |-> "none"]
    /\ pc = "ready"
    /\ ret = Err("not run")
    /\ fetched = <<>>

\* Image::new on the archive
TblOpen ==
    /\ pc = "ready"
    /\ env' = [op |-> "Image::new"]
    /\ ret' = Image_new(disk, pos)
    /\ pos' = ReadExact(disk, pos, SUPERBLOCK_SIZE).pos
    /\ pc' = IF Image_new(disk, pos).st = "Ok" THEN "open" ELSE "done"
    /\ UNCHANGED <<disk, codec, fetched>>

DoIdTable ==
    /\ pc = "open"
    /\ env' = [op |-> "Image::id_table", image |-> ret.val]
    /\ ret' = Image_id_table(disk, ret.val)
    /\ pc' = "done"
    /\ UNCHANGED <<disk, codec, pos, fetched>>

DoFragments ==
    /\ pc = "open"
    /\ env' = [op |-> "Image::fragments", image |-> ret.val]
    /\ ret' = Image_fragments(disk, ret.val)
    /\ pc' = "done"
    /\ UNCHANGED <<disk, codec, pos, fetched>>

DoExportTable ==
    /\ pc = "open"
    /\ env' = [op |-> "Image::export_table", image |-> ret.val]
    /\ ret' = Image_export_table(disk, ret.val)
    /\ pc' = "done"
    /\ UNCHANGED <<disk, codec, pos, fetched>>

NextTbl == TblOpen \/ DoIdTable \/ DoFragments \/ DoExportTable

SpecTbl == InitTbl /\ [][NextTbl]_vars

\* the call made on the opened image
TbDone(op) == pc = "done" /\ env.op = op
TbSb == env.image.superblock
TbBlocksFor(bytes) == (bytes + METADATA_SIZE - 1) \div METADATA_SIZE

\* the decompressed content of the block a pointer names
TbBlockOf(ptr) == read_block(disk, VecWriter(<<>>), SeekTo(disk, ptr), <<>>).w.buf

\* the logical table: the blocks named by the first n pointers at `start`,
\* decompressed and concatenated in index order
RECURSIVE TbConcat(_, _)
TbConcat(index, n) ==
    IF n = 0 THEN <<>> ELSE BCat(TbConcat(index, n - 1), TbBlockOf(index[n]))
TbLogical(start, n) ==
    LET index == ReadIndex(disk, start, n * 8)
    IN  IF index.st # "Ok" THEN <<>> ELSE TbConcat(index.val, Min(n, Len(index.val)))

TbIds == TbLogical(sb_id_table_start(TbSb), TbBlocksFor(4 * sb_no_ids(TbSb)))
TbFragments ==
    TbLogical(sb_fragment_table_start(TbSb), TbBlocksFor(16 * WInt(sb_fragments(TbSb))))
TbExports ==
    TbLogical(sb_export_table_start(TbSb), TbBlocksFor(8 * WInt(sb_inodes(TbSb))))

\* C2: a successful Image::id_table returns exactly no_ids identifiers, the
\* k-th being the little-endian u32 at bytes [4k, 4k+4) of the concatenated
\* decompressed blocks of the table, which are 4 * no_ids bytes in all.
C2_IdTable ==
    (TbDone("Image::id_table") /\ ret.st = "Ok") =>
        /\ Len(ret.val) = sb_no_ids(TbSb)
        /\ BLen(TbIds) = 4 * sb_no_ids(TbSb)
        /\ \A k \in 1..Len(ret.val) : ret.val[k] = Field(TbIds, 4 * (k - 1), 4)

\* C3: a successful Image::fragments returns exactly `fragments` entries, the
\* k-th built from bytes [16k, 16k+16) of the logical fragment table; with
\* fragments = 0 the result is empty and no metadata block is fetched; a table
\* of fewer than 16 * fragments bytes never gives a vector.
C3_Fragments ==
    TbDone("Image::fragments") =>
        /\ ret.st = "Ok" =>
              /\ Len(ret.val) = WInt(sb_fragments(TbSb))
              /\ \A k \in 1..Len(ret.val) :
                    /\ ret.val[k] = BSub(TbFragments, 16 * (k - 1), 16)
                    /\ fe_start_block(ret.val[k]) = Field(TbFragments, 16 * (k - 1), 8)
                    /\ fe_size(ret.val[k]) = Field(TbFragments, 16 * (k - 1) + 8, 4)
        /\ WInt(sb_fragments(TbSb)) = 0 =>
              ret.st = "Ok" /\ ret.val = <<>> /\ ret.blocks = 0
        /\ BLen(TbFragments) < 16 * WInt(sb_fragments(TbSb)) => ret.st # "Ok"

\* C4: Image::export_table returns an empty vector without touching the
\* source when export_table_start is -1; otherwise a successful call returns
\* exactly `inodes` values, the k-th being the little-endian u64 at bytes
\* [8k, 8k+8) of the concatenated decompressed blocks of the table.
C4_ExportTable ==
    TbDone("Image::export_table") =>
        IF sb_export_table_start(TbSb) = INVALID_BLK
        THEN ret.st = "Ok" /\ ret.val = <<>> /\ ~ret.touched
        ELSE ret.st = "Ok" =>
                /\ Len(ret.val) = WInt(sb_inodes(TbSb))
                /\ \A k \in 1..Len(ret.val) :
                      /\ BLen(TbExports) >= 8 * k
                      /\ ret.val[k] = Field(TbExports, 8 * (k - 1), 8)

\* a well-formed table of `bytes` bytes at `start`: a complete outer index
\* whose blocks all read, each of 8192 bytes except the last, which holds
\* the rest
TbWellFormed(start, bytes) ==
    LET n == TbBlocksFor(bytes)
        index == ReadIndex(disk, start, n * 8)
    IN  /\ index.st = "Ok" /\ Len(index.val) = n
        /\ \A k \in 1..n :
              LET r == read_block(disk, VecWriter(<<>>), SeekTo(disk, index.val[k]), <<>>)
              IN  /\ r.st = "Ok"
                  /\ BLen(r.w.buf) = IF k < n THEN METADATA_SIZE
                                     ELSE bytes - METADATA_SIZE * (n - 1)

\* the table an operation reads: its start, its entry count, its entry size
TbTableOf(op) ==
    CASE op = "Image::id_table" -> <<sb_id_table_start(TbSb), sb_no_ids(TbSb), 4>>
      [] op = "Image::fragments" ->
            <<sb_fragment_table_start(TbSb), WInt(sb_fragments(TbSb)), FRAGMENT_ENTRY_SIZE>>
      [] op = "Image::export_table" ->
            <<sb_export_table_start(TbSb), WInt(sb_inodes(TbSb)), INODE_ENTRY_SIZE>>

\* C23: with an expected length of 8192 for every inner block but the last
\* and total_bytes mod 8192 for the last, a well-formed fragment, id or
\* export table whose total_bytes is a non-zero multiple of 8192 is read
\* successfully and yields all its entries.
C23_FullLastBlockIsRead ==
    \A op \in {"Image::id_table", "Image::fragments", "Image::export_table"} :
        (/\ TbDone(op)
         /\ TbTableOf(op)[2] > 0
         /\ (TbTableOf(op)[2] * TbTableOf(op)[3]) % METADATA_SIZE = 0
         /\ TbWellFormed(TbTableOf(op)[1], TbTableOf(op)[2] * TbTableOf(op)[3]))
            => ret.st = "Ok" /\ Len(ret.val) = TbTableOf(op)[2]

-----------------------------------------------------------------------------
(* Image::read_fs (src/src/image.rs): the four table reads in the order of *)
(* the code, each `?` ending the call with the error of its step.  steps   *)
(* lists the operations that ran.                                          *)

FsResult(st, why, val, steps) == [st |-> st, why |-> why, val |-> val, steps |-> steps]

Image_read_fs(d, image, build) ==
    Eval({(IF fragment_table.st # "Ok"
      THEN FsResult(fragment_table.st, fragment_table.why, <<>>, <<"fragments">>)
      ELSE Eval({(IF id_table.st # "Ok"
        THEN FsResult(id_table.st, id_table.why, <<>>, <<"fragments", "id_table">>)
        ELSE Eval({(IF scan.st # "Ok"
          THEN FsResult(scan.st, scan.why, <<>>, <<"fragments", "id_table", "inodes">>)
          ELSE Eval({(IF export_table.st # "Ok"
            THEN FsResult(export_table.st, export_table.why, <<>>,
                          <<"fragments", "id_table", "inodes", "export_table">>)
            ELSE FsResult("Ok", "ok",
                          [fragment_table |-> fragment_table.val,
                           id_table |-> id_table.val,
                           export_table |-> export_table.val,
                           root |-> scan.val.root,
                           inode_table |-> scan.val.inode_headers],
                          <<"fragments", "id_table", "inodes", "export_table">>))
              : export_table \in {Image_export_table(d, image)}}))
            : scan \in {Image_inodes(d, image, build)}}))
          : id_table \in {Image_id_table(d, image)}}))
        : fragment_table \in {Image_fragments(d, image)}})

-----------------------------------------------------------------------------
(* Specification SpecFs: Image::new, then one operation of the image, on   *)
(* whole archives: superblock, compressor options, one inode-table block,  *)
(* one block and one index pointer for each of the id, fragment and export *)
(* tables.  The compressor id, the options flag, the storage of the blocks *)
(* and one damaged table are drawn from small sets.                        *)

\* a metadata block holding content: stored, or compressed as content id c
FsBlock(content, c, comp) ==
    IF comp THEN Block(FALSE, StoredLen(BLen(content)), Opaque(c), StoredLen(BLen(content)))
    ELSE BCat(BlockHeader(TRUE, BLen(content)), content)

FsInodes == TableSmall
FsIds == BLit(<<232, 3, 0, 0, 0, 0, 0, 0>>)                  \* ids 1000 and 0
FsFragment == BCat(LeBytes(WNat(4096, 4)), BCat(LeBytes(WNat(300, 2)), BFill(0, 4)))
FsExports == BCat(BCat(LeBytes(WNat(1, 4)), LeBytes(WNat(2, 4))), LeBytes(WNat(3, 4)))

\* the contents of the four blocks; a short export block holds one entry
FsContents(damage) ==
    <<FsInodes, FsIds, FsFragment,
      IF damage = "export_short" THEN BTake(FsExports, INODE_ENTRY_SIZE) ELSE FsExports>>
FsOptionsAt == SUPERBLOCK_SIZE
FsOptionsSize == 8

\* file offset of the k-th block (1 inodes, 2 ids, 3 fragments, 4 exports,
\* 5 the end of the blocks)
RECURSIVE FsBlockAt(_, _, _)
FsBlockAt(k, comp, damage) ==
    IF k = 1 THEN FsOptionsAt + FsOptionsSize
    ELSE FsBlockAt(k - 1, comp, damage)
         + BLen(FsBlock(FsContents(damage)[k - 1], 20 + k - 1, comp))

FsCodec(comp, damage) ==
    IF comp
    THEN [c \in {Opaque(20 + k) : k \in 1..4} |->
            [len |-> StoredLen(BLen(FsContents(damage)[c - Opaque(20)])),
             out |-> FsContents(damage)[c - Opaque(20)]]]
    ELSE <<>>

FsCompressors == {0, 1, 2, 3, 4, 5, 6, 7, 65535}
FsDamages == {"none", "fragments", "id_table", "inodes", "inodes_end", "export_table",
              "export_short"}

\* the archive; the index of a damaged table is a pointer past the end of the
\* file, a damaged inode table starts at the end of the file, and with
\* "inodes_end" the inode table ends two bytes behind its block; with
\* "export_short" the export block holds one entry instead of three
FsArchive(compressor, options, comp, export, damage) ==
    LET c == FsContents(damage)
        blocks == BCat(BCat(FsBlock(c[1], 21, comp), FsBlock(c[2], 22, comp)),
                       BCat(FsBlock(c[3], 23, comp), FsBlock(c[4], 24, comp)))
        index == BCat(BCat(LeBytes(WNat(FsBlockAt(2, comp, damage), 4)),
                           LeBytes(WNat(FsBlockAt(3, comp, damage), 4))),
                      LeBytes(WNat(FsBlockAt(4, comp, damage), 4)))
        at == FsBlockAt(5, comp, damage)
        eof == at + 32
        start(name, k) == WNat(IF damage = name THEN at + 24 ELSE at + 8 * k, 4)
        sb == SbBytes([SbDefault EXCEPT
                  !.inodes = WNat(3, 2),
                  !.fragments = WNat(1, 2),
                  !.no_ids = 2,
                  !.compressor = compressor,
                  !.flags = IF options THEN COMPRESSOR_OPTIONS_PRESENT ELSE 0,
                  !.inode_table_start =
                      WNat(IF damage = "inodes" THEN eof ELSE FsBlockAt(1, comp, damage), 4),
                  !.directory_table_start =
                      WNat(IF damage = "inodes" THEN eof + 2
                           ELSE FsBlockAt(2, comp, damage)
                                + (IF damage = "inodes_end" THEN 2 ELSE 0), 4),
                  !.id_table_start = start("id_table", 0),
                  !.fragment_table_start = start("fragments", 1),
                  !.export_table_start =
                      IF export THEN start("export_table", 2) ELSE INVALID_BLK])
    IN  BCat(BCat(BCat(sb, BFill(0, FsOptionsSize)), blocks),
             BCat(index, LeBytes(WNat(eof, 4))))

InitFs ==
    /\ \E compressor \in FsCompressors, options \in BOOLEAN, comp \in BOOLEAN,
          export \in BOOLEAN, damage \in FsDamages :
          /\ disk = FsArchive(compressor, options, comp, export, damage)
          /\ codec = FsCodec(comp, damage)
    /\ pos = 0
    /\ env = [op |-> "none"]
    /\ pc = "ready"
    /\ ret = Err("not run")
    /\ fetched = <<>>

\* Image::new on the archive
FsOpen ==
    /\ pc = "ready"
    /\ env' = [op |-> "Image::new"]
    /\ ret' = Image_new(disk, pos)
    /\ pos' = ReadExact(disk, pos, SUPERBLOCK_SIZE).pos
    /\ pc' = IF Image_new(disk, pos).st = "Ok" THEN "open" ELSE "done"
    /\ UNCHANGED <<disk, codec, fetched>>

\* the operation's result for the opened image
FsCall(op, image, build) ==
    CASE op = "Image::compressor" -> Image_compressor(disk, image.superblock)
      [] op = "Image::inodes" -> Image_inodes(disk, image, build)
      [] op = "Image::fragments" -> Image_fragments(disk, image)
      [] op = "Image::id_table" -> Image_id_table(disk, image)
      [] op = "Image::export_table" -> Image_export_table(disk, image)
      [] op = "Image::read_fs" -> Image_read_fs(disk, image, build)

FsOps == {"Image::compressor", "Image::inodes", "Image::fragments", "Image::id_table",
          "Image::export_table", "Image::read_fs"}

\* one operation on the opened image
FsDo ==
    /\ pc = "open"
    /\ \E op \in FsOps, build \in Builds :
          /\ env' = [op |-> op, image |-> ret.val, build |-> build]
          /\ ret' = FsCall(op, ret.val, build)
    /\ pc' = "done"
    /\ UNCHANGED <<disk, codec, pos, fetched>>

NextFs == FsOpen \/ FsDo

SpecFs == InitFs /\ [][NextFs]_vars

\* C13: with a compressor id other than 1 and 4, Image::compressor, inodes,
\* fragments, id_table and (when the table is present) export_table return an
\* error value; with id 1 or 4 Image::compressor builds the GZIP or the XZ
\* compressor.
C13_UnsupportedCompressor ==
    (/\ pc = "done"
     /\ env.op \in FsOps \ {"Image::read_fs"}
     /\ env.op = "Image::export_table" =>
            sb_export_table_start(env.image.superblock) # INVALID_BLK) =>
        IF sb_compressor(env.image.superblock) \in {1, 4}
        THEN env.op = "Image::compressor" =>
               /\ ret.st = "Ok"
               /\ ret.val.kind = IF sb_compressor(env.image.superblock) = 1
                                 THEN "GZIP" ELSE "XZ"
        ELSE ret.st = "Err"

\* the steps of read_fs in the order of the claim, and the result of the k-th
\* when it is called on its own
FsSteps == <<"fragments", "id_table", "inodes", "export_table">>
FsStep(k) == FsCall("Image::" \o FsSteps[k], env.image, env.build)
\* the tables and the inode list of a successful read_fs are complete: as
\* many entries as the superblock counts, each one read from the logical
\* table, and an inode list that covers the decoded inode table
FsComplete ==
    /\ Len(ret.val.fragment_table) = WInt(sb_fragments(TbSb))
    /\ \A k \in 1..Len(ret.val.fragment_table) :
          ret.val.fragment_table[k] = BSub(TbFragments, 16 * (k - 1), 16)
    /\ Len(ret.val.id_table) = sb_no_ids(TbSb)
    /\ \A k \in 1..Len(ret.val.id_table) :
          ret.val.id_table[k] = Field(TbIds, 4 * (k - 1), 4)
    /\ Len(ret.val.export_table) =
          IF sb_export_table_start(TbSb) = INVALID_BLK THEN 0 ELSE WInt(sb_inodes(TbSb))
    /\ \A k \in 1..Len(ret.val.export_table) :
          /\ BLen(TbExports) >= 8 * k
          /\ ret.val.export_table[k] = Field(TbExports, 8 * (k - 1), 8)
    /\ Len(ret.val.inode_table) = WInt(sb_inodes(TbSb))

\* C18: read_fs runs the fragment-table read, the id-table read, the inode
\* scan and the export-table read in this order and stops at the first step
\* that fails, returning that step's error; a success is the bundle of the
\* four results, none of them a partially filled table or a cut inode list.
C18_ReadFsAllOrError ==
    (pc = "done" /\ env.op = "Image::read_fs") =>
        LET n == Len(ret.steps)
        IN  /\ n >= 1 /\ ret.steps = SubSeq(FsSteps, 1, n)
            /\ \A k \in 1..(n - 1) : FsStep(k).st = "Ok"
            /\ IF ret.st = "Ok"
               THEN /\ n = 4 /\ FsStep(4).st = "Ok"
                    /\ ret.val = [fragment_table |-> FsStep(1).val,
                                  id_table |-> FsStep(2).val,
                                  export_table |-> FsStep(4).val,
                                  root |-> FsStep(3).val.root,
                                  inode_table |-> FsStep(3).val.inode_headers]
                    /\ FsComplete
               ELSE /\ ret.st = "Err"
                    /\ FsStep(n).st = "Err" /\ ret.why = FsStep(n).why

-----------------------------------------------------------------------------
(* Specification SpecFtr: FragmentTableReader::new on an archive, then a   *)
(* sequence of FragmentTableReader::read calls with destination buffers of *)
(* the sizes in FtrSizes.  env carries the reader, the bytes delivered so  *)
(* far (out) and whether every read so far asked for 16 bytes.             *)

MaxZeroReads == 2       \* reads made after a read has returned 0
\* destination sizes: one entry, a size that does not divide a block, and a
\* size larger than a block
FtrSizes == {FRAGMENT_ENTRY_SIZE, 5000, METADATA_SIZE + FRAGMENT_ENTRY_SIZE}

\* <<bytes of the table, sizes of its blocks>>: well-formed tables of 0, 1, 2,
\* 512 and 513 entries, and one whose first block is short
FtrTables == {<<0, <<>>>>, <<16, <<16>>>>, <<32, <<32>>>>,
              <<METADATA_SIZE, <<METADATA_SIZE>>>>,
              <<METADATA_SIZE + 16, <<METADATA_SIZE, 16>>>>,
              <<METADATA_SIZE + 16, <<16, METADATA_SIZE>>>>}

InitFtr ==
    /\ \E t \in FtrTables, comp \in BOOLEAN :
          /\ disk = TbArchive(t[1], t[2], comp, 10, FALSE, 0)
          /\ codec = TableCodec(TbTable(t[2], Len(t[2]), 10), t[2], comp)
    /\ pos = 0
    /\ env = [op |-> "none"]
    /\ pc = "ready"
    /\ ret = Err("not run")
    /\ fetched = <<>>

\* Superblock::new and FragmentTableReader::new on the archive
FtrNew ==
    /\ pc = "ready"
    /\ Superblock_new(disk, pos).st = "Ok"
    /\ \E sb \in {Superblock_new(disk, pos).val} :
       \E r \in {FragmentTableReader_new(disk, sb)} :
           /\ ret' = r
           /\ env' = [op |-> "FragmentTableReader::new", superblock |-> sb,
                      ftr |-> r.val, out |-> <<>>, all16 |-> TRUE, zeros |-> 0]
           /\ pc' = IF r.st = "Ok" THEN "reading" ELSE "done"
    /\ pos' = ReadExact(disk, pos, SUPERBLOCK_SIZE).pos
    /\ UNCHANGED <<disk, codec, fetched>>

\* the pointer a read into n bytes hands to read_block, if it gets that far:
\* not when the buffer covers the request, not when the index is used up
FtrFetches(ftr, n) ==
    IF /\ ftr.buffer_position < BLen(ftr.buffer)
       /\ n < BLen(ftr.buffer) - ftr.buffer_position
    THEN <<>>
    ELSE IF ftr.position = Len(ftr.index) THEN <<>>
    ELSE <<ftr.index[ftr.position + 1]>>

\* one FragmentTableReader::read into a buffer of n bytes; fetched lists the
\* pointers handed to read_block so far
FtrRead ==
    /\ pc = "reading"
    /\ env.zeros < MaxZeroReads
    /\ \E n \in FtrSizes :
          \E r \in {FragmentTableReader_read(disk, env.ftr, n)} :
              /\ ret' = r
              /\ env' = [env EXCEPT !.op = "FragmentTableReader::read",
                                    !.ftr = r.ftr,
                                    !.out = BCat(env.out, r.data),
                                    !.all16 = env.all16 /\ n = FRAGMENT_ENTRY_SIZE,
                                    !.zeros = IF r.st = "Ok" /\ BLen(r.data) = 0
                                              THEN env.zeros + 1 ELSE env.zeros]
              /\ fetched' = fetched \o FtrFetches(env.ftr, n)
              /\ pc' = IF r.st = "Ok" THEN "reading" ELSE "done"
    /\ UNCHANGED <<disk, codec, pos>>

NextFtr == FtrNew \/ FtrRead

SpecFtr == InitFtr /\ [][NextFtr]_vars

\* the non-streaming two-level read of the fragment table: the blocks the
\* reader's outer index addresses, decompressed, in index order
FtrLogical == TbConcat(env.ftr.index, Len(env.ftr.index))
\* the table is well formed: the index has a pointer for every 8192 bytes of
\* 16 * fragments, every block but the last holds 8192 bytes and the last
\* one the rest (8192 when nothing else is left)
FtrWellFormed ==
    LET total == env.ftr.fragments * FRAGMENT_ENTRY_SIZE
        n == Len(env.ftr.index)
    IN  /\ n = TbBlocksFor(total)
        /\ \A k \in 1..n :
              /\ read_block(disk, VecWriter(<<>>), SeekTo(disk, env.ftr.index[k]),
                            <<>>).st = "Ok"
              /\ BLen(TbBlockOf(env.ftr.index[k])) =
                    IF k < n THEN METADATA_SIZE ELSE total - METADATA_SIZE * (n - 1)
\* a drain: every read so far asked for 16 bytes
FtrDraining == env.op = "FragmentTableReader::read" /\ env.all16

\* C17: draining the reader with reads of 16 bytes until a read returns 0
\* yields the concatenation, in index order, of the decompressed blocks the
\* outer index addresses, and the drain of a well-formed table does not
\* fail, whatever the fragment count and the number of blocks.
C17_DrainEqualsTwoLevelRead ==
    FtrDraining =>
        /\ (ret.st = "Ok" /\ BLen(ret.data) = 0) => env.out = FtrLogical
        /\ FtrWellFormed => ret.st = "Ok"

\* C24: for every sequence of destination sizes passed to
\* FragmentTableReader::read, the bytes returned by the successive reads
\* are, one after the other, the logical fragment table: each byte once and
\* in order, and all of them when a read returns 0.
C24_ReadsDeliverTableOnce ==
    (env.op = "FragmentTableReader::read" /\ FtrWellFormed /\ ret.st = "Ok") =>
        /\ BLen(env.out) <= BLen(FtrLogical)
        /\ env.out = BTake(FtrLogical, BLen(env.out))
        /\ BLen(ret.data) = 0 => env.out = FtrLogical

\* the reader exists: FragmentTableReader::new succeeded
FtrExists == pc = "reading" \/ env.op = "FragmentTableReader::read"

\* C25: in every state reached by FragmentTableReader::read calls with any
\* destination sizes on a well-formed table, buffer_position <= buffer.len(), position <=
\* index.len(), and the buffer is empty or holds the bytes of the one
\* metadata block fetched last.
C25_ReaderInvariant ==
    (FtrExists /\ FtrWellFormed) =>
        /\ env.ftr.buffer_position <= BLen(env.ftr.buffer)
        /\ env.ftr.position <= Len(env.ftr.index)
        /\ \/ env.ftr.buffer = <<>>
           \/ /\ env.ftr.position >= 1
              /\ env.ftr.buffer = TbBlockOf(env.ftr.index[env.ftr.position])

\* the last read returned 0
FtrZeroRead ==
    env.op = "FragmentTableReader::read" /\ ret.st = "Ok" /\ BLen(ret.data) = 0

\* a read returns 0 only when every pointer is consumed and nothing is left
\* in the buffer; the pointers were fetched once each, in index order; after
\* a read of 0 every read is a read of 0
FtrEndOfStream ==
    (FtrExists /\ FtrWellFormed) =>
        /\ FtrZeroRead => /\ env.ftr.position = Len(env.ftr.index)
                          /\ ~(env.ftr.buffer_position < BLen(env.ftr.buffer))
        /\ Len(fetched) <= Len(env.ftr.index)
        /\ \A k \in 1..Len(fetched) : fetched[k] = env.ftr.index[k]
        /\ env.zeros >= 1 => FtrZeroRead

\* a read made after a read of 0 fetches no block
FtrNoFetchAfterZero ==
    (FtrExists /\ FtrWellFormed /\ env.zeros >= 1) => fetched' = fetched

\* every read that returns bytes lengthens env.out and consumes a pointer or
\* buffered bytes, so the reads of a reader are finitely many unless they
\* are reads of 0; the reads reach a read of 0 when they do not end before
\* one, in an error or a panic
FtrEndsWithZero ==
    (pc = "done" /\ env.op = "FragmentTableReader::read" /\ FtrWellFormed) => FtrZeroRead

\* C26: on a well-formed table, with non-empty destinations, a read returns
\* 0 only when every outer-index pointer has been consumed and every
\* buffered byte delivered; that state is reached after finitely many
\* reads; each pointer is fetched exactly once, in ascending index order;
\* once a read has returned 0 every later read returns 0 and fetches no
\* block.
C26_EndOfStream ==
    /\ []FtrEndOfStream
    /\ [][FtrNoFetchAfterZero]_vars
    /\ []FtrEndsWithZero

-----------------------------------------------------------------------------
(* Accessor pairs over packed records (src/src/utils.rs,                   *)
(* get_set_field_tuple!).  A record is the byte array self.0; a field is   *)
(* the slot [start, start + size) the macro invocation names.              *)

\* the getter: buf.clone_from_slice(&self.0[start..end]), from_le_bytes(buf)
tuple_get(rec, start, size) ==
    IF start + size > Len(rec) THEN Panic("range end index out of range")
    ELSE Ok(FromLeBytes(SubSeq(rec, start + 1, start + size)))

\* the loop of the setter from index i on: self.0[i] = value[i - start]
RECURSIVE tuple_set_from(_, _, _, _, _)
tuple_set_from(rec, bytes, start, i, end) ==
    IF i >= end THEN [st |-> "Ok", rec |-> rec]
    ELSE IF i >= Len(rec) THEN [st |-> "Panic", rec |-> rec]
    ELSE tuple_set_from([rec EXCEPT ![i + 1] = bytes[i - start + 1]],
                        bytes, start, i + 1, end)

\* the setter: value.to_le_bytes() copied into the slot byte by byte
tuple_set(rec, value, start, size) ==
    tuple_set_from(rec, ToLeBytes(value), start, start, start + size)

\* the accessor pairs of the inode headers: record, length, slots
AccInodeHeaders ==
    { [rec |-> "DirectoryInodeHeader", len |-> 32,
       slots |-> {<<0, 2>>, <<2, 2>>, <<4, 2>>, <<6, 2>>, <<8, 4>>, <<12, 4>>,
                  <<16, 4>>, <<20, 4>>, <<24, 2>>, <<26, 2>>, <<28, 4>>}],
      [rec |-> "LDirectoryInodeHeader", len |-> 40,
       slots |-> {<<0, 2>>, <<2, 2>>, <<4, 2>>, <<6, 2>>, <<8, 4>>, <<12, 4>>,
                  <<16, 4>>, <<20, 4>>, <<24, 4>>, <<28, 4>>, <<32, 2>>, <<34, 2>>,
                  <<36, 4>>}],
      [rec |-> "DirectoryIndex", len |-> 12,
       slots |-> {<<0, 4>>, <<4, 4>>, <<8, 4>>}],
      [rec |-> "RegularInodeHeader", len |-> 32,
       slots |-> {<<0, 2>>, <<2, 2>>, <<4, 2>>, <<6, 2>>, <<8, 4>>, <<12, 4>>,
                  <<16, 4>>, <<20, 4>>, <<24, 4>>, <<28, 4>>}],
      [rec |-> "LRegularInodeHeader", len |-> 56,
       slots |-> {<<0, 2>>, <<2, 2>>, <<4, 2>>, <<6, 2>>, <<8, 4>>, <<12, 4>>,
                  <<16, 8>>, <<24, 8>>, <<32, 8>>, <<40, 4>>, <<44, 4>>, <<48, 4>>,
                  <<52, 4>>}],
      [rec |-> "SymlinkInodeHeader", len |-> 24,
       slots |-> {<<0, 2>>, <<2, 2>>, <<4, 2>>, <<6, 2>>, <<8, 4>>, <<12, 4>>,
                  <<16, 4>>, <<20, 4>>}],
      [rec |-> "DevInodeHeader", len |-> 24,
       slots |-> {<<0, 2>>, <<2, 2>>, <<4, 2>>, <<6, 2>>, <<8, 4>>, <<12, 4>>,
                  <<16, 4>>, <<20, 4>>}],
      [rec |-> "LDevInodeHeader", len |-> 28,
       slots |-> {<<0, 2>>, <<2, 2>>, <<4, 2>>, <<6, 2>>, <<8, 4>>, <<12, 4>>,
                  <<16, 4>>, <<20, 4>>, <<24, 4>>}],
      [rec |-> "IPCInodeHeader", len |-> 20,
       slots |-> {<<0, 2>>, <<2, 2>>, <<4, 2>>, <<6, 2>>, <<8, 4>>, <<12, 4>>,
                  <<16, 4>>}],
      [rec |-> "LIPCInodeHeader", len |-> 24,
       slots |-> {<<0, 2>>, <<2, 2>>, <<4, 2>>, <<6, 2>>, <<8, 4>>, <<12, 4>>,
                  <<16, 4>>, <<20, 4>>}] }

\* FragmentEntry: start_block, size, unused
AccFragmentEntry ==
    [rec |-> "FragmentEntry", len |-> FRAGMENT_ENTRY_SIZE,
     slots |-> {<<0, 8>>, <<8, 4>>, <<12, 4>>}]

\* GzipCompressor([u8; 8]): compression_level, window_size, strategies
AccGzipCompressor ==
    [rec |-> "GzipCompressor", len |-> FsOptionsSize,
     slots |-> {<<0, 4>>, <<4, 4>>, <<8, 2>>}]

\* TestField([u8; 4]): test
AccTestField == [rec |-> "TestField", len |-> 4, slots |-> {<<0, 4>>}]

AccRecords == AccInodeHeaders \cup {AccFragmentEntry, AccGzipCompressor, AccTestField}

-----------------------------------------------------------------------------
(* Specification SpecSeq: Image::new, then a sequence of table operations  *)
(* on the one image (src/src/image.rs).  The operations share the source   *)
(* through self.reader, so each one starts with the cursor where the one   *)
(* before left it; pos is that cursor.                                     *)

\* the cursor behind read_block(.., start, ..): behind the payload, or behind
\* what there was of the header
BlockEnd(d, start) == read_block(d, VecWriter(<<>>), SeekTo(d, start), <<>>).pos

\* the cursor behind Image::compressor: seek(SeekFrom::Start(SUPERBLOCK_SIZE)),
\* then Compressor::new reads the 8 option bytes when the flag is set and the
\* id is 1 or 4
CompressorCursor(d, sb) ==
    IF sb_compressor(sb) \in {1, 4} /\ (sb_flags(sb) \div COMPRESSOR_OPTIONS_PRESENT) % 2 = 1
    THEN ReadExact(d, SUPERBLOCK_SIZE, 8).pos
    ELSE SUPERBLOCK_SIZE

\* the cursor behind the block loop of Image::id_table (slice = FALSE) and of
\* Image::export_table (slice = TRUE) from round i on: every round seeks to
\* its pointer, the first round that fails is the last
RECURSIVE BlocksCursor(_, _, _, _, _, _, _)
BlocksCursor(d, index, i, blocks, bytes, slice, cur) ==
    LET expected == ExpectedSize(i, blocks, bytes)
        w == IF slice THEN SliceWriter(expected) ELSE VecWriter(BFill(0, expected))
    IN  IF i > Len(index) \/ i > blocks THEN cur
        ELSE Eval({(IF r.st # "Ok" THEN r.pos
               ELSE BlocksCursor(d, index, i + 1, blocks, bytes, slice, r.pos))
            : r \in {read_block(d, w, SeekTo(d, index[i]), <<expected>>)}})

\* the cursor behind a table read of `count` entries of `size` bytes whose
\* outer index is at `start`
TableCursor(d, image, start, count, size, slice) ==
    LET bytes == count * size
        blocks == (bytes + METADATA_SIZE - 1) \div METADATA_SIZE
        index == ReadIndex(d, start, blocks * 8)
        behind == ReadUpTo(d, SeekTo(d, start), blocks * 8).pos
    IN  IF Image_compressor(d, image.superblock).st # "Ok"
        THEN CompressorCursor(d, image.superblock)
        ELSE IF index.st # "Ok" \/ (slice /\ Len(index.val) # blocks) THEN behind
        ELSE BlocksCursor(d, index.val, 1, blocks, bytes, slice, behind)

\* the cursor behind Image::fragments, whose reader fetched r.blocks blocks
\* and, when it failed with pointers left, failed on the fetch of the next
FragmentsCursor(d, image, r) ==
    LET ftr == FragmentTableReader_new(d, image.superblock)
        fragments == WInt(sb_fragments(image.superblock))
        indexes == (fragments * FRAGMENT_ENTRY_SIZE + METADATA_SIZE - 1) \div METADATA_SIZE
        behind == ReadUpTo(d, SeekTo(d, sb_fragment_table_start(image.superblock)),
                           indexes * 8).pos
    IN  IF Image_compressor(d, image.superblock).st # "Ok"
        THEN CompressorCursor(d, image.superblock)
        ELSE IF ftr.st # "Ok" THEN behind
        ELSE IF r.st # "Ok" /\ r.blocks < Len(ftr.val.index)
        THEN BlockEnd(d, ftr.val.index[r.blocks + 1])
        ELSE IF r.blocks = 0 THEN behind
        ELSE BlockEnd(d, ftr.val.index[r.blocks])

\* the cursor behind Image::inodes: behind the last block the scan read
InodesCursor(d, image, r) ==
    IF Len(r.blocks) = 0 THEN CompressorCursor(d, image.superblock)
    ELSE BlockEnd(d, r.blocks[Len(r.blocks)].start)

\* where the operation op, having returned r, leaves the cursor that was at cur
FacadeCursor(op, d, image, r, cur) ==
    CASE op = "Image::compressor" -> CompressorCursor(d, image.superblock)
      [] op = "Image::inodes" -> InodesCursor(d, image, r)
      [] op = "Image::fragments" -> FragmentsCursor(d, image, r)
      [] op = "Image::id_table" ->
             TableCursor(d, image, sb_id_table_start(image.superblock),
                         sb_no_ids(image.superblock), 4, FALSE)
      [] op = "Image::export_table" ->
             IF ~r.touched THEN cur
             ELSE TableCursor(d, image, sb_export_table_start(image.superblock),
                              WInt(sb_inodes(image.superblock)), INODE_ENTRY_SIZE, TRUE)

\* the RefCell events of an operation: self.reader.borrow_mut() and the drop
\* of the RefMut at the end of the function that took it.  Every operation
\* but an export_table without a table calls self.compressor() first, and
\* goes on to its own borrow when that returned Ok.
FacadeBorrows(op, d, image) ==
    LET once == <<"borrow_mut", "drop">>
    IN  IF op = "Image::export_table"
           /\ sb_export_table_start(image.superblock) = INVALID_BLK THEN <<>>
        ELSE IF op = "Image::compressor" THEN once
        ELSE IF Image_compressor(d, image.superblock).st # "Ok" THEN once
        ELSE once \o once

\* RefCell's borrow flag behind the events of trace, from the flag `held`;
\* 2 stands for the BorrowMutError panic of a borrow_mut while one is held
RECURSIVE BorrowFlag(_, _)
BorrowFlag(trace, held) ==
    IF trace = <<>> THEN held
    ELSE IF trace[1] = "borrow_mut"
    THEN IF held = 1 THEN 2 ELSE BorrowFlag(Tail(trace), 1)
    ELSE BorrowFlag(Tail(trace), 0)

MaxCalls == 2           \* operations called on one image
SeqOps == FsOps \ {"Image::read_fs"}
SeqCompressors == {1, 2}
SeqDamages == {"none", "fragments", "inodes_end", "export_short"}

InitSeq ==
    /\ \E compressor \in SeqCompressors, options \in BOOLEAN, comp \in BOOLEAN,
          export \in BOOLEAN, damage \in SeqDamages :
          /\ disk = FsArchive(compressor, options, comp, export, damage)
          /\ codec = FsCodec(comp, damage)
    /\ pos = 0
    /\ env = [op |-> "none"]
    /\ pc = "ready"
    /\ ret = Err("not run")
    /\ fetched = <<>>

\* Image::new on the archive
SeqOpen ==
    /\ pc = "ready"
    /\ ret' = Image_new(disk, pos)
    /\ pos' = ReadExact(disk, pos, SUPERBLOCK_SIZE).pos
    /\ UNCHANGED <<disk, codec, fetched>>
    /\ pc' = IF ret'.st = "Ok" THEN "open" ELSE "done"
    /\ IF ret'.st # "Ok" THEN env' = [op |-> "Image::new"]
       ELSE \E build \in Builds :
              env' = [op |-> "Image::new", image |-> ret'.val, build |-> build,
                      calls |-> 0, before |-> 0, borrowed |-> 0, first |-> <<>>]

\* the table operation's result for the opened image
SeqResult(op, image, build) ==
    CASE op = "Image::compressor" -> Image_compressor(disk, image.superblock)
      [] op = "Image::inodes" -> Image_inodes(disk, image, build)
      [] op = "Image::fragments" -> Image_fragments(disk, image)
      [] op = "Image::id_table" -> Image_id_table(disk, image)
      [] op = "Image::export_table" -> Image_export_table(disk, image)

\* one table operation on the opened image.  When it is the first call on
\* the image, the cursor being where Image::new left it, env.first keeps for
\* the properties what each operation returns in this state.
SeqCall ==
    /\ pc = "open"
    /\ env.calls < MaxCalls
    /\ \E op \in SeqOps :
         \E now \in {[o \in (IF env.calls = 0 THEN SeqOps ELSE {op}) |->
                         SeqResult(o, env.image, env.build)]} :
         \E r \in {now[op]} :
         \E first \in {IF env.calls = 0 THEN now ELSE env.first} :
          /\ ret' = r
          /\ pos' = FacadeCursor(op, disk, env.image, r, pos)
          /\ env' = [env EXCEPT !.op = op, !.calls = env.calls + 1, !.before = pos,
                        !.first = first,
                        !.borrowed = BorrowFlag(FacadeBorrows(op, disk, env.image),
                                                env.borrowed)]
          /\ pc' = IF r.st = "Panic" THEN "done" ELSE "open"
    /\ UNCHANGED <<disk, codec, fetched>>

NextSeq == SeqOpen \/ SeqCall

SpecSeq == InitSeq /\ [][NextSeq]_vars

\* an operation of the sequence has returned
SeqCalled == pc \in {"open", "done"} /\ env.op \in SeqOps

-----------------------------------------------------------------------------
(* Specification SpecMeta: Image::new, then a sequence of                  *)
(* Image::get_inode_metadata calls on the one image (src/src/image.rs).    *)
(* inode_hash_table is the function from the keys inserted so far to their *)
(* entries; fetched lists the keys whose block was asked of read_block.    *)

MetaResult(st, val, why, image, touched, reads, cur) ==
    [st |-> st, val |-> val, why |-> why, image |-> image, touched |-> touched,
     reads |-> reads, pos |-> cur]

\* a HashMap::get that finds nothing
inode_hash_table_get_Miss(table, start) == <<>>
\* self.inode_hash_table.get(&start): <<entry>> (Some) or <<>> (None)
inode_hash_table_get(table, start) ==
    IF start \in DOMAIN table THEN <<table[start]>> ELSE <<>>

\* Image::get_inode_metadata(start) with the cursor at cur: the entry under
\* the key, or compressor(), read_block at inode_table_start + start with
\* Some(METADATA_SIZE) expected, InodeEntry::new(buf) and insert
Image_get_inode_metadata(d, image, start, build, cur) ==
    LET table == image.inode_hash_table
        compressor == Image_compressor(d, image.superblock)
        inode_start == sb_inode_table_start(image.superblock)
        behind == CompressorCursor(d, image.superblock)
        entry == inode_hash_table_get(table, start)
    IN  IF entry # <<>>
        THEN MetaResult("Ok", entry[1], "ok", image, FALSE, <<>>, cur)
        ELSE IF compressor.st # "Ok"
        THEN MetaResult(compressor.st, <<>>, compressor.why, image, TRUE, <<>>, behind)
        ELSE IF build.overflow_checks /\ WSAddOverflows(inode_start, start)
        THEN MetaResult("Panic", <<>>, "attempt to add with overflow", image, TRUE, <<>>,
                        behind)
        ELSE Eval({(IF r.st # "Ok"
               THEN MetaResult(r.st, <<>>, r.why, image, TRUE, <<start>>, r.pos)
               ELSE MetaResult("Ok", r.w.buf, "ok",
                        [image EXCEPT !.inode_hash_table =
                            [k \in DOMAIN table \cup {start} |->
                                IF k = start THEN r.w.buf ELSE table[k]]],
                        TRUE, <<start>>, r.pos))
            : r \in {read_block(d, VecWriter(<<>>), SeekTo(d, WAdd(inode_start, start)),
                             <<METADATA_SIZE>>)}})

MaxGets == 3            \* get_inode_metadata calls on one image

\* inode tables of two blocks and of one full block
MetaTables == {<<TableTwo, <<METADATA_SIZE, 56>>>>, <<TableFull, <<METADATA_SIZE>>>>}
\* the keys asked for: the first block, the second block when stored and when
\* compressed, and an offset behind the end of the archive
MetaStarts == {WNat(0, 4), WNat(METADATA_SIZE + 2, 4), WNat(StoredLen(METADATA_SIZE) + 2, 4),
               WNat(2 * METADATA_SIZE, 4)}

InitMeta ==
    /\ \E t \in MetaTables, comp \in BOOLEAN, cut \in 0..MaxCut :
          /\ disk = ScArchive(t, comp, 0, 0, 0, 0, cut)
          /\ codec = TableCodec(t[1], t[2], comp)
    /\ pos = 0
    /\ env = [op |-> "none"]
    /\ pc = "ready"
    /\ ret = Err("not run")
    /\ fetched = <<>>

\* Image::new on the archive
MetaOpen ==
    /\ pc = "ready"
    /\ ret' = Image_new(disk, pos)
    /\ pos' = ReadExact(disk, pos, SUPERBLOCK_SIZE).pos
    /\ pc' = IF Image_new(disk, pos).st = "Ok" THEN "open" ELSE "done"
    /\ IF Image_new(disk, pos).st # "Ok" THEN env' = [op |-> "Image::new"]
       ELSE \E build \in Builds :
              env' = [op |-> "Image::new", image |-> Image_new(disk, pos).val,
                      build |-> build, calls |-> 0, start |-> <<>>,
                      before |-> [table |-> <<>>, fetched |-> <<>>]]
    /\ UNCHANGED <<disk, codec, fetched>>

\* one get_inode_metadata call on the opened image; env.before keeps, for the
\* properties, the table and the reads as they were when it was called
MetaGet ==
    /\ pc = "open"
    /\ env.calls < MaxGets
    /\ \E start \in MetaStarts :
         \E r \in {Image_get_inode_metadata(disk, env.image, start, env.build, pos)} :
          /\ ret' = r
          /\ pos' = r.pos
          /\ fetched' = fetched \o r.reads
          /\ env' = [env EXCEPT !.op = "Image::get_inode_metadata", !.image = r.image,
                        !.calls = env.calls + 1, !.start = start,
                        !.before = [table |-> env.image.inode_hash_table,
                                    fetched |-> fetched]]
          /\ pc' = IF r.st = "Panic" THEN "done" ELSE "open"
    /\ UNCHANGED <<disk, codec>>

NextMeta == MetaOpen \/ MetaGet

SpecMeta == InitMeta /\ [][NextMeta]_vars

\* a get_inode_metadata call has returned
MetaCalled == pc \in {"open", "done"} /\ env.op = "Image::get_inode_metadata"
\* no key was asked of read_block twice
MetaReadOnce == \A i, j \in 1..Len(fetched) : fetched[i] = fetched[j] => i = j
\* the call found its key in the table: it returns that entry and leaves
\* the source alone
MetaHit ==
    env.start \in DOMAIN env.before.table =>
        /\ ret.st = "Ok" /\ ret.val = env.before.table[env.start]
        /\ ~ret.touched /\ fetched = env.before.fetched /\ pos = ret.pos
\* a failed call inserts nothing, a successful one its entry under its key,
\* and what was in the table stays as it was
MetaInsert ==
    LET was == env.before.table
        now == env.image.inode_hash_table
    IN  /\ ret.st # "Ok" => now = was
        /\ ret.st = "Ok" => /\ DOMAIN now = DOMAIN was \cup {env.start}
                            /\ now[env.start] = ret.val
        /\ \A k \in DOMAIN was : k \in DOMAIN now /\ now[k] = was[k]

\* a key in the table was asked of read_block once
MetaInsertedReadOnce ==
    \A k \in DOMAIN env.image.inode_hash_table :
        Cardinality({i \in 1..Len(fetched) : fetched[i] = k}) = 1

\* C30: in any sequence of get_inode_metadata calls the block of a start
\* offset is read from the source at most once: the first successful call
\* inserts an entry under the key, a later call with the key returns that
\* entry without touching the source, a failed call inserts nothing, and an
\* inserted entry is never changed or evicted.
C30_InodeCacheReadsOnce ==
    MetaCalled => MetaReadOnce /\ MetaHit /\ MetaInsert

\* C30 as the code has it: the block of a start offset is read successfully
\* at most once.  The first successful call inserts an entry under the key,
\* a later call with the key returns that entry without touching the
\* source, a failed call inserts nothing (so the next call with its key
\* reads the source again), and an inserted entry is never changed or
\* evicted.
C30_InodeCacheReadsInsertedOnce ==
    MetaCalled => MetaInsertedReadOnce /\ MetaHit /\ MetaInsert

\* a call that found the entry an earlier call had read and inserted
C30_Witness ==
    /\ MetaCalled
    /\ env.start \in DOMAIN env.before.table
    /\ Len(fetched) >= 1 /\ ret.st = "Ok" /\ BLen(ret.val) = METADATA_SIZE

-----------------------------------------------------------------------------
(* Specification SpecAcc: a record with some content, one setter call and  *)
(* the getter of the same field behind it, or a getter call alone.         *)

\* the value the test of the crate writes
AccTestValue == 43434331

\* values of a field of size bytes: zero, one, the largest, one whose bytes
\* all differ, and for u32 the value of the test
AccValues(size) ==
    {[i \in 1..(size \div 2) |-> 0], [i \in 1..(size \div 2) |-> 65535],
     [i \in 1..(size \div 2) |-> IF i = 1 THEN 1 ELSE 0],
     [i \in 1..(size \div 2) |-> 512 * i + 2 * i - 1]}
    \cup (IF size = 4 THEN {WNat(AccTestValue, 2)} ELSE {})

\* the contents a record starts with: all zero, or bytes that all differ
AccContents(len) == {[i \in 1..len |-> 0], [i \in 1..len |-> 160 + i]}

InitAcc ==
    /\ disk = <<>>
    /\ codec = <<>>
    /\ pos = 0
    /\ \E a \in AccRecords : \E c \in AccContents(a.len) :
          env = [op |-> "none", acc |-> a, rec |-> c, before |-> c,
                 slot |-> <<0, 0>>, value |-> <<>>]
    /\ pc = "ready"
    /\ ret = Err("not run")
    /\ fetched = <<>>

\* record.set_f(v)
AccSet ==
    /\ pc = "ready"
    /\ \E slot \in env.acc.slots : \E v \in AccValues(slot[2]) :
          LET r == tuple_set(env.rec, v, slot[1], slot[2])
          IN  /\ env' = [env EXCEPT !.op = "set", !.rec = r.rec, !.slot = slot,
                                    !.value = v]
              /\ ret' = IF r.st = "Ok" THEN Ok(<<>>) ELSE Panic("index out of bounds")
              /\ pc' = IF r.st = "Ok" THEN "set" ELSE "done"
    /\ UNCHANGED <<disk, codec, pos, fetched>>

\* record.f(): of the field just set, or of any field of a fresh record
AccGet ==
    /\ pc \in {"ready", "set"}
    /\ \E slot \in (IF pc = "set" THEN {env.slot} ELSE env.acc.slots) :
          /\ env' = [env EXCEPT !.op = IF pc = "set" THEN "set_get" ELSE "get",
                                !.slot = slot]
          /\ ret' = tuple_get(env.rec, slot[1], slot[2])
    /\ pc' = "done"
    /\ UNCHANGED <<disk, codec, pos, fetched>>

NextAcc == AccSet \/ AccGet

SpecAcc == InitAcc /\ [][NextAcc]_vars

\* C20: for every accessor pair over a packed record, set_f(v) followed by
\* f() returns v; the setter writes the little-endian encoding of v into
\* the slot of the field and leaves every other byte of the record as it
\* was; the getter of a field returns the integer stored in its slot.
C20_SetGetRoundTrip ==
    /\ env.op \in {"set", "set_get"} =>
          /\ env.op = "set" => ret.st = "Ok"
          /\ Len(env.rec) = Len(env.before)
          /\ env.slot[1] + env.slot[2] <= Len(env.rec)
          /\ SubSeq(env.rec, env.slot[1] + 1, env.slot[1] + env.slot[2])
                = ToLeBytes(env.value)
          /\ \A i \in 1..Len(env.rec) :
                (i <= env.slot[1] \/ i > env.slot[1] + env.slot[2])
                    => env.rec[i] = env.before[i]
    /\ env.op = "set_get" => ret = Ok(env.value)
    /\ env.op = "get" =>
          /\ ret.st = "Ok"
          /\ ToLeBytes(ret.val)
                = SubSeq(env.before, env.slot[1] + 1, env.slot[1] + env.slot[2])

====
